---- MODULE Spec2Model ----
(***************************************************************************)
(* Luftuj-HA add-on backend: the timeline scheduler (TimelineRunner and    *)
(* the module-level scheduler of the older server), the write-plan         *)
(* interpreter (applyWriteDefinition) and the helpers they use.            *)
(*                                                                         *)
(* Conventions.                                                            *)
(*  - An optional value (null / undefined in the TypeScript) is a sequence *)
(*    of length at most one: None is <<>>, Some(x) is <<x>>.               *)
(*  - A JavaScript string that the code parses is a sequence of one-       *)
(*    character strings, so that split and parseInt are computed.          *)
(*  - NaN is None where a number is expected (Number.isFinite is Fin).     *)
(***************************************************************************)
EXTENDS Integers, Sequences, FiniteSets, Bags, TLC

None == <<>>
Some(x) == <<x>>
IsSome(o) == Len(o) = 1
Val(o) == o[1]

Range(s) == {s[i] : i \in 1..Len(s)}

(***************************************************************************)
(* Strings and Number.parseInt(value, 10)                                  *)
(***************************************************************************)
Digits == <<"0", "1", "2", "3", "4", "5", "6", "7", "8", "9">>

IsDigit(c) == \E i \in 1..10 : Digits[i] = c

DigitVal(c) == (CHOOSE i \in 1..10 : Digits[i] = c) - 1

\* number of leading characters of s, from position i on, that are digits
RECURSIVE DigitRun(_, _)
DigitRun(s, i) ==
  IF i <= Len(s) /\ IsDigit(s[i]) THEN 1 + DigitRun(s, i + 1) ELSE 0

RECURSIVE DigitsValue(_, _, _)
DigitsValue(s, i, n) ==
  IF n = 0 THEN 0 ELSE DigitsValue(s, i, n - 1) * 10 + DigitVal(s[i + n - 1])

RECURSIVE SkipSpaces(_, _)
SkipSpaces(s, i) ==
  IF i <= Len(s) /\ s[i] = " " THEN SkipSpaces(s, i + 1) ELSE i

\* Number.parseInt(s, 10): leading white space, an optional sign, then the
\* longest run of digits; NaN (None) when there is no digit.
ParseInt(s) ==
  LET i == SkipSpaces(s, 1)
      neg == i <= Len(s) /\ s[i] = "-"
      j == IF i <= Len(s) /\ (s[i] = "-" \/ s[i] = "+") THEN i + 1 ELSE i
      n == DigitRun(s, j)
  IN IF n = 0 THEN None
     ELSE Some(IF neg THEN 0 - DigitsValue(s, j, n) ELSE DigitsValue(s, j, n))

\* value.split(":"): the parts between the colons (always at least one part)
RECURSIVE SplitFrom(_, _, _)
SplitFrom(s, i, cur) ==
  IF i > Len(s) THEN <<cur>>
  ELSE IF s[i] = ":" THEN <<cur>> \o SplitFrom(s, i + 1, <<>>)
  ELSE SplitFrom(s, i + 1, Append(cur, s[i]))

Split(s) == SplitFrom(s, 1, <<>>)

\* n.toString().padStart(2, "0") for 0 <= n <= 99
Pad2(n) == <<Digits[(n \div 10) + 1], Digits[(n % 10) + 1]>>

(***************************************************************************)
(* TimelineRunner.timeToMinutes / timeToMinutes                            *)
(***************************************************************************)
timeToMinutes(value) ==
  LET parts == Split(value)
      h == ParseInt(IF Len(parts) >= 1 THEN parts[1] ELSE <<"0">>)
      m == ParseInt(IF Len(parts) >= 2 THEN parts[2] ELSE <<"0">>)
      hh == IF IsSome(h) THEN Val(h) ELSE 0
      mm == IF IsSome(m) THEN Val(m) ELSE 0
  IN hh * 60 + mm

\* UI uses Monday = 0 ... Sunday = 6; JavaScript getDay() has Sunday = 0
mapTodayToTimelineDay(jsDay) == IF jsDay = 0 THEN 6 ELSE jsDay - 1

\* the minute of the day pickActiveEvent computes from the wall clock
nowMinutesOf(hours, minutes) ==
  timeToMinutes(Pad2(hours) \o <<":">> \o Pad2(minutes))

(***************************************************************************)
(* pickActiveEvent                                                         *)
(***************************************************************************)
\* the two filters of pickActiveEvent
IsCandidateAnyTime(e, today, nowMinutes) ==
  /\ e.enabled
  /\ (IF IsSome(e.dayOfWeek) THEN Val(e.dayOfWeek) ELSE today) = today

IsCandidateWrapping(e, today, nowMinutes) ==
  /\ e.enabled
  /\ (IF IsSome(e.dayOfWeek) THEN Val(e.dayOfWeek) ELSE today) = today
  /\ IF timeToMinutes(e.endTime) <= timeToMinutes(e.startTime)
     THEN timeToMinutes(e.startTime) <= nowMinutes \/ nowMinutes < timeToMinutes(e.endTime)
     ELSE timeToMinutes(e.startTime) <= nowMinutes /\ nowMinutes < timeToMinutes(e.endTime)

IsCandidateClosedEnd(e, today, nowMinutes) ==
  /\ e.enabled
  /\ (IF IsSome(e.dayOfWeek) THEN Val(e.dayOfWeek) ELSE today) = today
  /\ timeToMinutes(e.startTime) <= nowMinutes
  /\ nowMinutes <= timeToMinutes(e.endTime)

IsCandidateIgnoringEnabled(e, today, nowMinutes) ==
  /\ (IF IsSome(e.dayOfWeek) THEN Val(e.dayOfWeek) ELSE today) = today
  /\ timeToMinutes(e.startTime) <= nowMinutes
  /\ nowMinutes < timeToMinutes(e.endTime)

IsCandidate(e, today, nowMinutes) ==
  /\ e.enabled
  /\ (IF IsSome(e.dayOfWeek) THEN Val(e.dayOfWeek) ELSE today) = today
  /\ timeToMinutes(e.startTime) <= nowMinutes
  /\ nowMinutes < timeToMinutes(e.endTime)

Candidates(events, today, nowMinutes) ==
  SelectSeq(events, LAMBDA e : IsCandidate(e, today, nowMinutes))

compareEventsAscending(a, b) ==
  IF b.priority # a.priority THEN a.priority - b.priority
  ELSE timeToMinutes(b.startTime) - timeToMinutes(a.startTime)

\* the comparator given to candidates.sort: negative when a sorts before b
compareEvents(a, b) ==
  IF b.priority # a.priority THEN b.priority - a.priority
  ELSE timeToMinutes(b.startTime) - timeToMinutes(a.startTime)

\* Array.prototype.sort is stable: x goes after every element that does not
\* sort strictly after it
RECURSIVE InsertSorted(_, _)
InsertSorted(sorted, x) ==
  IF sorted = <<>> THEN <<x>>
  ELSE IF compareEvents(Head(sorted), x) <= 0
       THEN <<Head(sorted)>> \o InsertSorted(Tail(sorted), x)
       ELSE <<x>> \o sorted

RECURSIVE SortEvents(_)
SortEvents(s) ==
  IF s = <<>> THEN <<>>
  ELSE InsertSorted(SortEvents(SubSeq(s, 1, Len(s) - 1)), s[Len(s)])

\* events: what getTimelineEvents() returned; the result is null (None) or
\* the first candidate after the sort
pickActiveEvent(events, jsDay, hours, minutes) ==
  LET nowMinutes == nowMinutesOf(hours, minutes)
      today == mapTodayToTimelineDay(jsDay)
      candidates == Candidates(events, today, nowMinutes)
  IN IF Len(candidates) = 0 THEN None
     ELSE Some(SortEvents(candidates)[1])

(***************************************************************************)
(* State                                                                   *)
(***************************************************************************)
VARIABLES
  \* pickActiveEvent applied to one input (specification SpecPick)
  pEvents,      \* the rules getTimelineEvents() returned, in the store's order
  pClock,       \* [jsDay, hours, minutes] of new Date()
  pResult,      \* None before the call; Some(what pickActiveEvent returned)
  \* the rule store and the device configuration
  store,        \* the rules of the rule store (a set; every fetch orders them)
  hruConfigured,\* getHruDefinitionSafe() returns a definition
  valves,       \* entity -> the opening last set upstream (None: never set)
  regs,         \* register name -> raw value last written to the device
  \* the schedulers
  ticks,        \* the executions of applyTimelineEvent in progress (a bag)
  timelineTimer,\* TimelineRunner.timelineTimer: "null", "armed" or "fired"
  timelineInterval,   \* older scheduler: "null" or "set"
  lastAppliedEventId, \* older scheduler: None or Some(id)
  lastTick,     \* what the tick that ended last did (history)
  \* applyWriteDefinition (specification SpecWrite)
  wPlan,        \* writeDef.steps
  wInput,       \* inputValue
  wPc,          \* "idle", "writing" (await writeHolding), "delay" (await the
                \* settle timer), "done" (resolved) or "failed" (rejected)
  wIdx,         \* the number of the step being executed
  wLog,         \* the writeHolding calls so far, with their start and end times
  wClock,       \* the time in ms
  wTimerDue,    \* when the pending settle timer is due (None: no timer)
  \* resolveModeValue applied to one input (specification SpecResolve)
  rValues,      \* Object.entries(values): <<key, label>> pairs in key order
  rMode,        \* the mode asked for: a number or a string
  rResult,      \* None before the call; Some(what resolveModeValue returned)
  \* the raw value of one register write (specification SpecScale)
  qInput,       \* the quantity, its register definition and its value n/d
  qResult,      \* None before the write; Some(the raw value written)
  \* one Mutex (specification SpecMutex)
  mTasks,       \* the tasks given to runExclusive, in the order of the calls
  mQueue,       \* the promises this.queue has held: "pending" or "fulfilled"
  \* one POST /write or GET /read of createHruRouter (specification SpecRoute)
  hReq,         \* the stored unit setting, the unit definition and the body
  hRoute,       \* the handler: where it is, its writes and its responses
  \* one HruMonitor (specification SpecMonitor)
  monitor,      \* isRunning, the interval timers and the cycles in progress
  \* one ModbusTcpClient and the callers of withTempModbusClient
  reachable,    \* the device accepts connections and answers requests
  mb,           \* the client: connected, reconnectTimer, and its port
  tConnects,    \* connect() calls started by the reconnect timer, by stage
  calls,        \* caller -> where its withTempModbusClient call is
  \* one subscription of HomeAssistantClient.subscribeLuftatorEvents
  link,         \* active, socket, reconnectTimer and what the socket carried
  lastMsg,      \* the message the last "message" event delivered (None: none)
  handled,      \* the handler call that message led to (None: not called)
  \* the downstream WebSocket server (wss) and its subscribers
  clients,      \* the Set `clients`, in insertion order
  down,         \* subscriber socket -> readyState, handler position, frames
  offline,      \* valveManager is the OfflineValveManager (no token configured)
  \* the valve command path: POST /api/valves/:entityId and setValue
  snapshot,     \* the entity ids the synchronizer's snapshot holds
  upstreamCalls, \* the set-value calls issued upstream so far
  http,         \* None, or the last request and the response it got
  \* stopping and shutting down
  lifecycle     \* the stop and shutdown steps carried out so far, in order

pickVars == <<pEvents, pClock, pResult>>
deviceVars == <<store, hruConfigured, valves, regs>>
schedVars == <<ticks, timelineTimer, timelineInterval, lastAppliedEventId, lastTick>>
writeVars == <<wPlan, wInput, wPc, wIdx, wLog, wClock, wTimerDue>>
scaleVars == <<qInput, qResult>>
mutexVars == <<mTasks, mQueue>>
routeVars == <<hReq, hRoute>>
monitorVars == <<monitor>>
utilVars == <<mutexVars, routeVars, monitorVars>>
resolveVars == <<rValues, rMode, rResult, scaleVars, utilVars>>
coreVars == <<pickVars, deviceVars, schedVars, writeVars>>
connVars == <<reachable, mb, tConnects, calls>>
linkVars == <<link, lastMsg, handled>>
downVars == <<clients, down, offline>>
cmdVars == <<snapshot, upstreamCalls, http>>
lifeVars == <<lifecycle>>
restVars == <<resolveVars, connVars, linkVars, downVars, cmdVars, lifeVars>>
vars == <<coreVars, restVars>>

(***************************************************************************)
(* HRU unit definition (HRU_UNITS[0], atrea-rd5) and value conversions     *)
(***************************************************************************)
requestedPowerAddress == 10704
modeAddress == 10705
requestedTemperatureAddress == 10706

\* requestedTemperature.scale = 0.1, as the fraction 1/10
ScaleNum == 1
ScaleDen == 10

\* Math.round(n / d) for d > 0: the nearest integer, a half rounds up
Round(n, d) == (2 * n + d) \div (2 * d)

\* Math.round(input * scale), the conversion of a read, for input n/d and
\* scale sn/sd
roundedProduct(n, d, sn, sd) == Round(n * sn, d * sd)

\* Math.round(input / scale) for input n/d and scale sn/sd
roundedQuotient(n, d, sn, sd) == Round(n * sd, d * sn)

\* Math.round(temperature / scale) with scale = ScaleNum / ScaleDen
rawTemperature(temperature) == roundedQuotient(temperature, 1, ScaleNum, ScaleDen)

\* Math.round(power) of an integral power
rawPower(power) == Round(power, 1)

RegAddresses == {requestedPowerAddress, modeAddress, requestedTemperatureAddress}

\* registers.mode.values (index-based mapping 0..n-1), diacritics dropped
modeValues == <<
  <<"V", "y", "p", "n", "u", "t", "o">>,
  <<"A", "u", "t", "o", "m", "a", "t">>,
  <<"V", "e", "t", "r", "a", "n", "i">>,
  <<"C", "i", "r", "k", "u", "l", "a", "c", "e", " ", "s", " ", "v", "e", "t", "r", "a", "n", "i", "m">>,
  <<"C", "i", "r", "k", "u", "l", "a", "c", "e">>,
  <<"N", "o", "c", "n", "i", " ", "p", "r", "e", "d", "c", "h", "l", "a", "z", "e", "n", "i">>,
  <<"R", "o", "z", "v", "a", "z", "e", "n", "i">>,
  <<"P", "r", "e", "t", "l", "a", "k">> >>

\* a mode of hruConfig: a number or a string
NumMode(n) == [isNumber |-> TRUE, n |-> n, s |-> <<>>]
StrMode(s) == [isNumber |-> FALSE, n |-> 0, s |-> s]

\* String(n) of an integer
RECURSIVE NatToStr(_)
NatToStr(n) == IF n < 10 THEN <<Digits[n + 1]>> ELSE NatToStr(n \div 10) \o <<Digits[(n % 10) + 1]>>

IntToStr(n) == IF n < 0 THEN <<"-">> \o NatToStr(0 - n) ELSE NatToStr(n)

ModeToStr(mode) == IF mode.isNumber THEN IntToStr(mode.n) ELSE mode.s

\* values.findIndex((v) => v === mode): zero-based, -1 when there is none
FindIndex(values, mode) ==
  IF ~mode.isNumber /\ \E k \in 1..Len(values) : values[k] = mode.s
  THEN (CHOOSE k \in 1..Len(values) :
          values[k] = mode.s /\ \A j \in 1..(k - 1) : values[j] # mode.s) - 1
  ELSE -1

\* TimelineRunner.applyTimelineEvent: parseInt first, then the label
runnerRawMode(values, mode) ==
  LET parsed == ParseInt(ModeToStr(mode))
      idx == FindIndex(values, mode)
  IN IF IsSome(parsed) THEN Val(parsed) ELSE IF idx >= 0 THEN idx ELSE 0

\* older applyTimelineEvent: a number as it is, then parseInt, then the label
legacyRawMode(values, mode) ==
  IF mode.isNumber THEN mode.n ELSE runnerRawMode(values, mode)

(***************************************************************************)
(* Rules (TimelineEvent rows)                                              *)
(***************************************************************************)
t0600 == <<"0", "6", ":", "0", "0">>
t1000 == <<"1", "0", ":", "0", "0">>
t1100 == <<"1", "1", ":", "0", "0">>
t1300 == <<"1", "3", ":", "0", "0">>
t1400 == <<"1", "4", ":", "0", "0">>
t2200 == <<"2", "2", ":", "0", "0">>

Rule(id, startTime, endTime, dayOfWeek, priority, enabled, luftatorConfig, hruConfig) ==
  [id |-> id, startTime |-> startTime, endTime |-> endTime, dayOfWeek |-> dayOfWeek,
   priority |-> priority, enabled |-> enabled,
   luftatorConfig |-> luftatorConfig, hruConfig |-> hruConfig]

\* an entry of luftatorConfig: Object.entries order, opening None when null
Entry(entityId, opening) == [entityId |-> entityId, opening |-> opening]

HruCfg(power, temperature, mode) ==
  [power |-> power, temperature |-> temperature, mode |-> mode]

\* the rules of tests/services/hruService.test.ts and variations of them
RuleA == Rule(1, t1000, t1400, Some(0), 10, TRUE,
              Some(<<Entry("valve.1", Some(50)), Entry("valve.2", None),
                     Entry("valve.3", Some(50))>>),
              Some(HruCfg(Some(60), Some(22), None)))
RuleB == Rule(2, t1100, t1300, Some(0), 20, TRUE,
              Some(<<Entry("valve.1", Some(100))>>), None)
RuleC == Rule(3, t1100, t1400, None, 20, TRUE, None,
              Some(HruCfg(None, None, Some(StrMode(modeValues[3])))))
RuleD == Rule(4, t1000, t1300, Some(0), 20, TRUE, Some(<<>>), None)
RuleE == Rule(5, t1000, t1400, Some(0), 30, FALSE,
              Some(<<Entry("valve.1", Some(50))>>), None)
RuleF == Rule(6, t2200, t0600, None, 40, TRUE,
              Some(<<Entry("valve.1", Some(50))>>), None)

\* a window that ends when it starts
RuleH == Rule(8, t1000, t1000, None, 50, TRUE,
              Some(<<Entry("valve.1", Some(50))>>), None)

RulePool == {RuleA, RuleB, RuleC, RuleD, RuleE, RuleF, RuleH}

\* wall-clock readings the ticks are tried at
ClockDays == {0, 1, 2}
ClockTimes == {<<5, 0>>, <<10, 0>>, <<11, 0>>, <<12, 30>>, <<13, 59>>, <<14, 0>>, <<23, 0>>}
Clocks == {[jsDay |-> d, hours |-> t[1], minutes |-> t[2]] : d \in ClockDays, t \in ClockTimes}

MaxRules == 3

\* every order in which a store may return up to MaxRules distinct rules
RECURSIVE SeqsOfDistinct(_, _)
SeqsOfDistinct(S, n) ==
  IF n = 0 THEN {<<>>}
  ELSE {<<>>} \cup {<<x>> \o s : x \in S, s \in SeqsOfDistinct(S, n - 1)}

Orderings(S) == {s \in SeqsOfDistinct(S, Cardinality(S)) :
                   Len(s) = Cardinality(S) /\ Range(s) = S}

FetchResults == {s \in SeqsOfDistinct(RulePool, MaxRules) : Cardinality(Range(s)) = Len(s)}

(***************************************************************************)
(* Idle values of the variables a specification does not use               *)
(***************************************************************************)
PickIdle == pEvents = <<>> /\ pClock = [jsDay |-> 0, hours |-> 0, minutes |-> 0]
            /\ pResult = None
SchedIdle == /\ store = {} /\ hruConfigured = FALSE
             /\ valves = <<>> /\ regs = <<>>
             /\ ticks = EmptyBag /\ timelineTimer = "null" /\ timelineInterval = "null"
             /\ lastAppliedEventId = None /\ lastTick = None
WriteIdle == /\ wPlan = <<>> /\ wInput = 0 /\ wPc = "idle" /\ wIdx = 0 /\ wLog = <<>>
             /\ wClock = 0 /\ wTimerDue = None
ScaleIdle == qInput = <<>> /\ qResult = <<>>
MutexIdle == mTasks = <<>> /\ mQueue = <<>>
RouteIdle == hReq = <<>> /\ hRoute = <<>>
MonitorIdle == monitor = <<>>
UtilIdle == MutexIdle /\ RouteIdle /\ MonitorIdle
ResolveIdle == rValues = <<>> /\ rMode = [isNumber |-> TRUE, n |-> 0, s |-> <<>>]
               /\ rResult = <<>> /\ ScaleIdle /\ UtilIdle
ConnIdle == /\ reachable = TRUE
            /\ mb = [connected |-> FALSE, reconnectTimer |-> FALSE, portOpen |-> FALSE,
                     closePending |-> 0, dropped |-> FALSE]
            /\ tConnects = [teardown |-> 0, tcp |-> 0]
            /\ calls = <<>>
LinkIdle == link = <<>> /\ lastMsg = <<>> /\ handled = <<>>
DownIdle == clients = <<>> /\ down = <<>> /\ offline = FALSE
CmdIdle == snapshot = {} /\ upstreamCalls = <<>> /\ http = <<>>
LifeIdle == lifecycle = <<>>
RestIdle == ResolveIdle /\ ConnIdle /\ LinkIdle /\ DownIdle /\ CmdIdle /\ LifeIdle

(***************************************************************************)
(* SpecPick: pickActiveEvent on every bounded input                        *)
(***************************************************************************)
InitPick ==
  /\ pEvents \in FetchResults
  /\ pClock \in Clocks
  /\ pResult = None
  /\ SchedIdle /\ WriteIdle /\ RestIdle

PickApply ==
  /\ pResult = None
  /\ pResult' = Some(pickActiveEvent(pEvents, pClock.jsDay, pClock.hours, pClock.minutes))
  /\ UNCHANGED <<restVars, pEvents, pClock, deviceVars, schedVars, writeVars>>

NextPick == PickApply

SpecPick == InitPick /\ [][NextPick]_vars

\* the candidate set of the call, stated on the rules as a set
PickNow == pClock.hours * 60 + pClock.minutes
PickToday == IF pClock.jsDay = 0 THEN 6 ELSE pClock.jsDay - 1
PickCandidates ==
  {e \in Range(pEvents) :
     /\ e.enabled
     /\ (e.dayOfWeek = None \/ e.dayOfWeek = Some(PickToday))
     /\ timeToMinutes(e.startTime) <= PickNow
     /\ PickNow < timeToMinutes(e.endTime)}

\* C1: with two or more candidates, the selected rule is a candidate of the
\* greatest priority, and among the candidates of that priority it has the
\* latest start time, for every order the store returns the rules in.
C1_HighestPriorityLatestStart ==
  (pResult # None /\ Cardinality(PickCandidates) >= 2) =>
     /\ Val(pResult) # None
     /\ LET r == Val(Val(pResult)) IN
          /\ r \in PickCandidates
          /\ \A e \in PickCandidates : e.priority <= r.priority
          /\ \A e \in PickCandidates :
               e.priority = r.priority =>
                 timeToMinutes(e.startTime) <= timeToMinutes(r.startTime)

\* C1 witness: three candidates were returned with the lower priority first,
\* two of them share the greatest priority, and the later start was selected.
C1_Witness ==
  /\ pResult # None
  /\ Cardinality(PickCandidates) >= 3
  /\ pEvents[1] = RuleA
  /\ {RuleB, RuleD} \subseteq PickCandidates
  /\ Val(pResult) = Some(RuleB)

(***************************************************************************)
(* One execution of applyTimelineEvent                                     *)
(*                                                                         *)
(* pc is the await the execution is suspended at:                          *)
(*   "valve"   valveManager.setValue of entry i has been called            *)
(*   "connect" withTempModbusClient: client.connect() has been called      *)
(*   "write"   mb.writeHolding for quantity w has been called              *)
(*   "done"    the function has returned (only inside a step)              *)
(***************************************************************************)
MaxInflight == 2

\* clock: the wall-clock reading of the tick; event: the picked rule;
\* attempts: the entities setValue was called for; warned: the entities whose
\* failure was logged; sessions: the withTempModbusClient calls; hruWrites:
\* the writeHolding calls; hruFailed: "Failed to apply HRU settings" was logged
IdleTick == [pc |-> "idle", clock |-> None, event |-> None, i |-> 0, w |-> "none",
             attempts |-> <<>>, warned |-> <<>>, sessions |-> 0,
             hruWrites |-> <<>>, hruFailed |-> FALSE]

\* an execution that returned before it picked a rule, or picked none
EmptyTick(c) == [IdleTick EXCEPT !.pc = "done", !.clock = Some(c)]

NewTick(e, c) == [IdleTick EXCEPT !.event = Some(e), !.clock = Some(c)]

EventOf(t) == Val(t.event)

hasValves(e) == IsSome(e.luftatorConfig) /\ Len(Val(e.luftatorConfig)) > 0
hasHru(e) == IsSome(e.hruConfig)

EntriesOf(e) == IF IsSome(e.luftatorConfig) THEN Val(e.luftatorConfig) ELSE <<>>

\* the first entry at or after position from whose opening is set
\* (opening === undefined || opening === null is skipped), or Len + 1
RECURSIVE NextSetEntry(_, _)
NextSetEntry(entries, from) ==
  IF from > Len(entries) THEN from
  ELSE IF IsSome(entries[from].opening) THEN from
  ELSE NextSetEntry(entries, from + 1)

\* the quantities of hruConfig, in the order the session writes them
Quantities == <<"power", "temperature", "mode">>

QuantityApplies(cfg, q) ==
  CASE q = "power" -> IsSome(cfg.power)
    [] q = "temperature" -> IsSome(cfg.temperature)
    [] q = "mode" -> IsSome(cfg.mode)

RECURSIVE NextQuantity(_, _)
NextQuantity(cfg, from) ==
  IF from > Len(Quantities) THEN from
  ELSE IF QuantityApplies(cfg, Quantities[from]) THEN from
  ELSE NextQuantity(cfg, from + 1)

QuantityIndex(q) == CHOOSE k \in 1..Len(Quantities) : Quantities[k] = q

\* the register write the session issues for quantity q: <<address, raw>>
HruWriteOf(impl, cfg, q) ==
  CASE q = "power" -> <<requestedPowerAddress, rawPower(Val(cfg.power))>>
    [] q = "temperature" ->
         <<requestedTemperatureAddress, rawTemperature(Val(cfg.temperature))>>
    [] q = "mode" ->
         <<modeAddress, IF impl = "runner" THEN runnerRawMode(modeValues, Val(cfg.mode))
                        ELSE legacyRawMode(modeValues, Val(cfg.mode))>>

\* the session callback from quantity number from on: the next writeHolding
\* is called, or the callback returns, safeDisconnect runs and the tick ends
ContinueSession(impl, t, from) ==
  LET cfg == Val(EventOf(t).hruConfig)
      k == NextQuantity(cfg, from)
  IN IF k <= Len(Quantities)
     THEN [t EXCEPT !.pc = "write", !.w = Quantities[k],
                    !.hruWrites = Append(@, HruWriteOf(impl, cfg, Quantities[k]))]
     ELSE [t EXCEPT !.pc = "done"]

\* "Apply HRU settings if available": needs hruConfig and a configured unit
EnterHru(t) ==
  IF hasHru(EventOf(t)) /\ hruConfigured
  THEN [t EXCEPT !.pc = "connect", !.sessions = @ + 1]
  ELSE [t EXCEPT !.pc = "done"]

ContinueValvesAbortAfterFailure(t, from) ==
  LET entries == EntriesOf(EventOf(t))
      j == NextSetEntry(entries, from)
  IN IF hasValves(EventOf(t)) /\ j <= Len(entries) /\ t.warned = <<>>
     THEN [t EXCEPT !.pc = "valve", !.i = j,
                    !.attempts = Append(@, entries[j].entityId)]
     ELSE EnterHru(t)

\* the valve loop from entry number from on: setValue is called for the next
\* entry whose opening is set, or the loop is over and the HRU part follows
ContinueValves(t, from) ==
  LET entries == EntriesOf(EventOf(t))
      j == NextSetEntry(entries, from)
  IN IF hasValves(EventOf(t)) /\ j <= Len(entries)
     THEN [t EXCEPT !.pc = "valve", !.i = j,
                    !.attempts = Append(@, entries[j].entityId)]
     ELSE EnterHru(t)

\* applyTimelineEvent from "const hasValves" to its first await
ApplyFrom(e, c) ==
  IF ~hasValves(e) /\ ~hasHru(e) THEN [NewTick(e, c) EXCEPT !.pc = "done"]
  ELSE ContinueValves(NewTick(e, c), 1)

\* the execution called setValue or opened a session
Applied(t) == t.attempts # <<>> \/ t.sessions > 0

RuleIdOf(t) == IF IsSome(t.event) THEN Some(EventOf(t).id) ELSE None

\* what a finished execution leaves in lastTick: the clock reading and the
\* rule of the tick, the writes it issued, which failures it logged, and
\* whether its promise resolved or rejected
Summary(t, outcome) ==
  Some([clock |-> Val(t.clock), id |-> RuleIdOf(t), applied |-> Applied(t),
        attempts |-> t.attempts, sessions |-> t.sessions,
        valveFailed |-> t.warned # <<>>, hruFailed |-> t.hruFailed,
        outcome |-> outcome])

\* a failure of one of its writes was logged
Failed(summary) == summary.valveFailed \/ summary.hruFailed

\* the executions in progress
Running == BagToSet(ticks)

Replace(t, t2) == (ticks (-) SetToBag({t})) (+) SetToBag({t2})

Remove(t) == ticks (-) SetToBag({t})

\* wall-clock readings of the scheduler's ticks
TickClocks == {[jsDay |-> 1, hours |-> 10, minutes |-> 0],
               [jsDay |-> 1, hours |-> 12, minutes |-> 30],
               [jsDay |-> 1, hours |-> 14, minutes |-> 0],
               [jsDay |-> 2, hours |-> 12, minutes |-> 30]}

StoreChoices == {{RuleA, RuleB, RuleD}, {RuleA, RuleC, RuleE}}

\* rule 1 after an edit of its targets: same id, window, day and priority
RuleA2 == [RuleA EXCEPT !.luftatorConfig = Some(<<Entry("valve.2", Some(80))>>),
                        !.hruConfig = None]

\* the store after that edit
EditedStore(S) == (S \ {RuleA}) \cup {RuleA2}

\* the disabled rule of "should ignore disabled events", with device targets
\* added, alone in the store; and a disabled rule that outranks an enabled one
RuleG == Rule(7, t1000, t1400, Some(0), 10, FALSE,
              Some(<<Entry("valve.1", Some(50))>>),
              Some(HruCfg(Some(60), Some(22), None)))

DisabledStores == {{RuleG}, {RuleB, RuleC, RuleE}}

\* a store whose only rule carries a device directive and no valve targets
DirectiveStores == {{RuleC}}

AllStores == StoreChoices \cup {EditedStore(S) : S \in StoreChoices} \cup DisabledStores
             \cup DirectiveStores

\* the fetch and pick of a tick over the rules S, at any of the clock
\* readings: getTimelineEvents() throws (threw), or it returns the rules in
\* some order and pickActiveEvent picks event (None: null)
FetchesOf(S) ==
  {[clock |-> c, threw |-> TRUE, event |-> None] : c \in TickClocks} \cup
  {[clock |-> c, threw |-> FALSE,
    event |-> pickActiveEvent(o, c.jsDay, c.hours, c.minutes)] :
      o \in Orderings(S), c \in TickClocks}

FetchTable == [S \in AllStores |-> FetchesOf(S)]

Fetches == FetchTable[store]

InitDevice ==
  /\ store \in StoreChoices
  /\ hruConfigured \in BOOLEAN
  /\ valves = [v \in {"valve.1", "valve.2", "valve.3"} |-> None]
  /\ regs = [a \in RegAddresses |-> None]

\* the effect of a completed step of an execution on the device state
ValveEffect(t, ok) ==
  IF ok THEN LET en == EntriesOf(EventOf(t))[t.i]
             IN valves' = [valves EXCEPT ![en.entityId] = en.opening]
  ELSE UNCHANGED valves

WriteEffect(t, ok) ==
  IF ok THEN LET wr == t.hruWrites[Len(t.hruWrites)]
             IN regs' = [regs EXCEPT ![wr[1]] = Some(wr[2])]
  ELSE UNCHANGED regs

\* the execution after the awaited call of its pc settles (ok: it resolved)
AfterValve(t, ok) ==
  ContinueValves(IF ok THEN t ELSE [t EXCEPT !.warned = Append(@, EntriesOf(EventOf(t))[t.i].entityId)],
                 t.i + 1)

AfterConnect(impl, t, ok) ==
  IF ok THEN ContinueSession(impl, t, 1)
  ELSE [t EXCEPT !.pc = "done", !.hruFailed = TRUE]

AfterWriteReconnect(impl, t, ok) ==
  IF ok THEN ContinueSession(impl, t, QuantityIndex(t.w) + 1)
  ELSE [t EXCEPT !.pc = "connect", !.sessions = @ + 1, !.hruFailed = TRUE]

AfterWrite(impl, t, ok) ==
  IF ok THEN ContinueSession(impl, t, QuantityIndex(t.w) + 1)
  ELSE [t EXCEPT !.pc = "done", !.hruFailed = TRUE]

(***************************************************************************)
(* TimelineRunner: start, stop, the minute timer and the steps of a tick   *)
(***************************************************************************)
\* scheduleNextTimelineTick: clearTimeout of the stored timer, then a new one
scheduleNextTimelineTick == timelineTimer' = "armed"

RunnerFinishThenOnly(rest, t, outcome) ==
  /\ ticks' = rest
  /\ lastTick' = Summary(t, outcome)
  /\ timelineTimer' = IF outcome = "resolved" THEN "armed" ELSE timelineTimer

\* the end of an execution: the promise settles and the .finally callback of
\* start / of the timer callback runs in the same macrotask
RunnerFinish(rest, t, outcome) ==
  /\ ticks' = rest
  /\ lastTick' = Summary(t, outcome)
  /\ scheduleNextTimelineTick

\* void this.applyTimelineEvent() with the fetch and pick f: the synchronous
\* part up to the first await; fired says that the minute timer called it
RunnerBegin(f, fired) ==
  LET t == IF f.threw \/ f.event = None THEN EmptyTick(f.clock)
           ELSE ApplyFrom(Val(f.event), f.clock)
  IN IF f.threw THEN RunnerFinish(ticks, t, "rejected")
     ELSE IF t.pc = "done" THEN RunnerFinish(ticks, t, "resolved")
     ELSE /\ ticks' = ticks (+) SetToBag({t})
          /\ timelineTimer' = IF fired THEN "fired" ELSE timelineTimer
          /\ UNCHANGED lastTick

\* the execution t goes on to t2 after the call it awaited settled
RunnerStep(t, t2) ==
  IF t2.pc = "done" THEN RunnerFinish(Remove(t), t2, "resolved")
  ELSE /\ ticks' = Replace(t, t2)
       /\ UNCHANGED <<lastTick, timelineTimer>>

PendingTimers == IF timelineTimer = "armed" THEN 1 ELSE 0

\* TimelineRunner.start()
RunnerStart ==
  /\ BagCardinality(ticks) + PendingTimers < MaxInflight
  /\ \E f \in Fetches : RunnerBegin(f, FALSE)
  /\ UNCHANGED <<restVars, pickVars, deviceVars, writeVars, timelineInterval, lastAppliedEventId>>

\* the body of stop(): clearTimeout of the stored timer, then null
stop == timelineTimer' = "null"

\* TimelineRunner.stop()
RunnerStop ==
  /\ stop
  /\ UNCHANGED <<restVars, pickVars, deviceVars, writeVars, ticks, lastTick,
                 timelineInterval, lastAppliedEventId>>

\* the setTimeout callback of scheduleNextTimelineTick
RunnerTimerFire ==
  /\ timelineTimer = "armed"
  /\ \E f \in Fetches : RunnerBegin(f, TRUE)
  /\ UNCHANGED <<restVars, pickVars, deviceVars, writeVars, timelineInterval, lastAppliedEventId>>

\* valveManager.setValue of the awaited entry resolves (ok) or rejects
RunnerValveResult(t, ok) ==
  /\ t.pc = "valve"
  /\ ValveEffect(t, ok)
  /\ RunnerStep(t, AfterValve(t, ok))
  /\ UNCHANGED <<restVars, pickVars, writeVars, store, hruConfigured, regs,
                 timelineInterval, lastAppliedEventId>>

\* client.connect() of the session resolves or rejects
RunnerConnectResult(t, ok) ==
  /\ t.pc = "connect"
  /\ RunnerStep(t, AfterConnect("runner", t, ok))
  /\ UNCHANGED <<restVars, pickVars, writeVars, deviceVars, timelineInterval, lastAppliedEventId>>

\* mb.writeHolding of the awaited quantity resolves or rejects
RunnerWriteResult(t, ok) ==
  /\ t.pc = "write"
  /\ WriteEffect(t, ok)
  /\ RunnerStep(t, AfterWrite("runner", t, ok))
  /\ UNCHANGED <<restVars, pickVars, writeVars, store, hruConfigured, valves,
                 timelineInterval, lastAppliedEventId>>

InitRunner ==
  /\ InitDevice
  /\ ticks = EmptyBag
  /\ timelineTimer = "null"
  /\ timelineInterval = "null"
  /\ lastAppliedEventId = None
  /\ lastTick = None
  /\ PickIdle /\ WriteIdle /\ RestIdle

NextRunner ==
  \/ RunnerStart
  \/ RunnerStop
  \/ RunnerTimerFire
  \/ \E t \in Running, ok \in BOOLEAN : RunnerValveResult(t, ok)
  \/ \E t \in Running, ok \in BOOLEAN : RunnerConnectResult(t, ok)
  \/ \E t \in Running, ok \in BOOLEAN : RunnerWriteResult(t, ok)

SpecRunner == InitRunner /\ [][NextRunner]_vars

(***************************************************************************)
(* The older scheduler: startTimelineScheduler, setInterval, and the       *)
(* applyTimelineEvent that keeps lastAppliedEventId                        *)
(***************************************************************************)
\* the end of an execution: lastAppliedEventId = event.id ?? null
LegacyFinish(rest, t, outcome) ==
  /\ ticks' = rest
  /\ lastTick' = Summary(t, outcome)
  /\ lastAppliedEventId' = Some(EventOf(t).id)

\* void applyTimelineEvent() with the fetch and pick f: the synchronous part
\* up to the first await
LegacyBegin(f) ==
  IF f.threw
  THEN /\ lastTick' = Summary(EmptyTick(f.clock), "rejected")
       /\ UNCHANGED <<ticks, lastAppliedEventId>>
  ELSE IF f.event = None
  THEN /\ lastAppliedEventId' = None
       /\ lastTick' = Summary(EmptyTick(f.clock), "resolved")
       /\ UNCHANGED ticks
  ELSE LET e == Val(f.event)
           t == ApplyFrom(e, f.clock)
       IN IF e.id # 0 /\ lastAppliedEventId = Some(e.id)
          THEN /\ lastTick' = Summary([NewTick(e, f.clock) EXCEPT !.pc = "done"], "resolved")
               /\ UNCHANGED <<ticks, lastAppliedEventId>>
          ELSE IF t.pc = "done" THEN LegacyFinish(ticks, t, "resolved")
          ELSE /\ ticks' = ticks (+) SetToBag({t})
               /\ UNCHANGED <<lastTick, lastAppliedEventId>>

LegacyStep(t, t2) ==
  IF t2.pc = "done" THEN LegacyFinish(Remove(t), t2, "resolved")
  ELSE /\ ticks' = Replace(t, t2)
       /\ UNCHANGED <<lastTick, lastAppliedEventId>>

\* startTimelineScheduler(), called once when the server module loads
LegacyStart ==
  /\ timelineInterval = "null"
  /\ timelineInterval' = "set"
  /\ \E f \in Fetches : LegacyBegin(f)
  /\ UNCHANGED <<restVars, pickVars, deviceVars, writeVars, timelineTimer>>

\* the setInterval callback, every 30 s, whatever the earlier ticks do
LegacyIntervalFire ==
  /\ timelineInterval = "set"
  /\ BagCardinality(ticks) < MaxInflight
  /\ \E f \in Fetches : LegacyBegin(f)
  /\ UNCHANGED <<restVars, pickVars, deviceVars, writeVars, timelineTimer, timelineInterval>>

LegacyValveResult(t, ok) ==
  /\ t.pc = "valve"
  /\ ValveEffect(t, ok)
  /\ LegacyStep(t, AfterValve(t, ok))
  /\ UNCHANGED <<restVars, pickVars, writeVars, store, hruConfigured, regs,
                 timelineTimer, timelineInterval>>

LegacyConnectResult(t, ok) ==
  /\ t.pc = "connect"
  /\ LegacyStep(t, AfterConnect("legacy", t, ok))
  /\ UNCHANGED <<restVars, pickVars, writeVars, deviceVars, timelineTimer, timelineInterval>>

LegacyWriteResult(t, ok) ==
  /\ t.pc = "write"
  /\ WriteEffect(t, ok)
  /\ LegacyStep(t, AfterWrite("legacy", t, ok))
  /\ UNCHANGED <<restVars, pickVars, writeVars, store, hruConfigured, valves,
                 timelineTimer, timelineInterval>>

InitLegacy == InitRunner

NextLegacy ==
  \/ LegacyStart
  \/ LegacyIntervalFire
  \/ \E t \in Running, ok \in BOOLEAN : LegacyValveResult(t, ok)
  \/ \E t \in Running, ok \in BOOLEAN : LegacyConnectResult(t, ok)
  \/ \E t \in Running, ok \in BOOLEAN : LegacyWriteResult(t, ok)

SpecLegacy == InitLegacy /\ [][NextLegacy]_vars

(***************************************************************************)
(* Claims about the schedulers (SpecRunner, SpecLegacy)                    *)
(***************************************************************************)
\* the rule e is a candidate at the clock reading c, stated on the rule
MatchesAt(e, c) ==
  /\ e.enabled
  /\ (e.dayOfWeek = None \/ e.dayOfWeek = Some((c.jsDay + 6) % 7))
  /\ timeToMinutes(e.startTime) <= c.hours * 60 + c.minutes
  /\ c.hours * 60 + c.minutes < timeToMinutes(e.endTime)

\* for every store and clock reading of the model: no rule is a candidate
NoCandidateTable ==
  [S \in StoreChoices |-> [c \in TickClocks |-> \A e \in S : ~MatchesAt(e, c)]]

NoCandidateAt(c) == NoCandidateTable[store][c]

RuleById(id) == CHOOSE e \in store : e.id = id

\* the entities of the entries whose opening is set, in the order of the map
SetEntities(entries) ==
  LET set == SelectSeq(entries, LAMBDA en : en.opening # None)
  IN [k \in 1..Len(set) |-> set[k].entityId]

\* the execution that a step started, if it started one that is suspended
Started(t) ==
  /\ BagCardinality(ticks') > BagCardinality(ticks)
  /\ CopiesIn(t, ticks') > CopiesIn(t, ticks)

\* C2: a tick at a clock reading at which no stored rule is a candidate
\* calls no setValue, opens no device session, and leaves the valve openings
\* and the device registers as they were.
C2_EmptyTickNoWrite ==
  /\ [](\A t \in Running : ~NoCandidateAt(Val(t.clock)))
  /\ []((lastTick # None /\ NoCandidateAt(Val(lastTick).clock)) =>
          (~Val(lastTick).applied /\ Val(lastTick).id = None))
  /\ [][(lastTick' # lastTick /\ NoCandidateAt(Val(lastTick').clock)) =>
          (ticks' = ticks /\ valves' = valves /\ regs' = regs)]_vars

\* C2 witness: a tick with no candidate ended after an earlier tick had set
\* a valve and written a register; both are still in place
C2_Witness ==
  /\ lastTick # None
  /\ NoCandidateAt(Val(lastTick).clock)
  /\ Val(lastTick).outcome = "resolved"
  /\ valves["valve.1"] = Some(50)
  /\ regs[requestedPowerAddress] = Some(60)

\* C3 (as claimed): an execution issues writes for the rule that was already
\* the active rule of the previous tick only if a write of that tick failed.
C3_ReapplyOnlyOnChange ==
  [][\A t \in BagToSet(ticks') :
       (Started(t) /\ lastTick # None /\ Val(lastTick).id = RuleIdOf(t)) =>
          (Val(lastTick).valveFailed \/ Val(lastTick).hruFailed)]_vars

\* C4 (as claimed): the tick that follows a tick of the same rule in which a
\* write failed issues the rule's writes again.
C4_FailureRetried ==
  [][(/\ lastTick # None
      /\ (Val(lastTick).valveFailed \/ Val(lastTick).hruFailed)
      /\ lastTick' # lastTick
      /\ Val(lastTick').id = Val(lastTick).id)
       => Val(lastTick').applied]_vars

\* C5 (as claimed): at most one execution of applyTimelineEvent is in
\* progress at any time.
C5_TicksSerialized == BagCardinality(ticks) <= 1

\* C6: setValue is called once, in map order, for every entry whose opening
\* is set, whatever calls failed before; a valve opening changes only when
\* an awaited setValue succeeds (nothing is rolled back).
C6_EveryValveAttemptedOnce ==
  /\ [](\A t \in Running :
          LET entries == EntriesOf(EventOf(t)) IN
          /\ t.pc = "valve" => t.attempts = SetEntities(SubSeq(entries, 1, t.i))
          /\ t.pc \in {"connect", "write"} => t.attempts = SetEntities(entries)
          /\ Range(t.warned) \subseteq Range(t.attempts))
  /\ []((lastTick # None /\ Val(lastTick).id # None) =>
          Val(lastTick).attempts =
            SetEntities(EntriesOf(RuleById(Val(Val(lastTick).id)))))
  /\ [][valves' = valves \/
        \E t \in Running :
          /\ t.pc = "valve"
          /\ LET en == EntriesOf(EventOf(t))[t.i]
             IN valves' = [valves EXCEPT ![en.entityId] = en.opening]]_vars

\* C6 witness: setValue failed for valve.1, was still called for valve.3 and
\* succeeded there
C6_Witness ==
  \E t \in Running :
    /\ t.pc = "connect"
    /\ t.warned = <<"valve.1">>
    /\ t.attempts = <<"valve.1", "valve.3">>
    /\ valves["valve.3"] = Some(50)

\* C7: the device directive is applied in one session, opened after the
\* valve loop; a failure of the session is logged, the tick still resolves,
\* and the valve openings are what they were before the failure.
C7_OneSessionAfterValves ==
  /\ [](\A t \in Running :
          /\ t.sessions <= 1
          /\ t.pc = "valve" => (t.sessions = 0 /\ t.hruWrites = <<>>)
          /\ t.pc \in {"connect", "write"} =>
               (t.sessions = 1 /\ t.attempts = SetEntities(EntriesOf(EventOf(t)))))
  /\ [](lastTick # None =>
          /\ Val(lastTick).sessions <= 1
          /\ Val(lastTick).hruFailed =>
               (Val(lastTick).outcome = "resolved" /\ Val(lastTick).sessions = 1))
  /\ [][(lastTick' # lastTick /\ Val(lastTick').hruFailed) => valves' = valves]_vars

\* C7 witness: the session of rule A failed after both valves had been set
C7_Witness ==
  /\ lastTick # None
  /\ Val(lastTick).hruFailed
  /\ Val(lastTick).outcome = "resolved"
  /\ Val(lastTick).attempts = <<"valve.1", "valve.3">>
  /\ valves["valve.1"] = Some(50)
  /\ valves["valve.3"] = Some(50)

Step(address, kind, value, delayMs) ==
  [address |-> address, kind |-> kind, value |-> value, delayMs |-> delayMs]

ConstValue(v) == [isFunction |-> FALSE, v |-> v, fn |-> "none"]
FnValue(fn) == [isFunction |-> TRUE, v |-> 0, fn |-> fn]

\* typeof step.value === "function" ? step.value(inputValue) : step.value
StepValue(step, input) ==
  IF step.value.isFunction
  THEN CASE step.value.fn = "input" -> input
         [] step.value.fn = "roundInputByTenth" -> Round(input * 10, 1)
  ELSE step.value.v

\* an unlock write with a settle delay, commits of the input, a final write
StepPool == {Step(1, "holding", ConstValue(1), Some(100)),
             Step(2, "input", FnValue("roundInputByTenth"), None),
             Step(3, "holding", FnValue("input"), Some(0)),
             Step(4, "holding", ConstValue(0), Some(40))}

MaxSteps == 2

RECURSIVE SeqsUpTo(_, _)
SeqsUpTo(S, n) ==
  IF n = 0 THEN {<<>>}
  ELSE {<<>>} \cup {<<x>> \o s : x \in S, s \in SeqsUpTo(S, n - 1)}

Plans == SeqsUpTo(StepPool, MaxSteps)

WriteInputs == {22, 60}

\* how far the clock may move between two events, and how far in all
ClockSteps == {40, 100}
MaxClock == 300

settleDelayIgnored(step) == 0

\* "if (step.delayMs)": the delay awaited after the write of the step, 0 when
\* delayMs is undefined or 0
settleDelay(step) ==
  IF IsSome(step.delayMs) /\ Val(step.delayMs) # 0 THEN Val(step.delayMs) ELSE 0

failedWriteSwallowed(ok) == "completed"

\* await mb.writeHolding(...): a rejection leaves the loop and the function
writeOutcome(ok) == IF ok THEN "completed" ELSE "thrown"

\* the loop reaches step k: writeHolding is called for it, or the loop is over
StartStep(log, k) ==
  IF k > Len(wPlan)
  THEN /\ wPc' = "done"
       /\ wLog' = log
       /\ UNCHANGED wIdx
  ELSE /\ wPc' = "writing"
       /\ wIdx' = k
       /\ wLog' = Append(log, [idx |-> k, address |-> wPlan[k].address,
                                value |-> StepValue(wPlan[k], wInput),
                                start |-> wClock, end |-> None, ok |-> FALSE])

\* the call of applyWriteDefinition
WriteCall ==
  /\ wPc = "idle"
  /\ StartStep(wLog, 1)
  /\ UNCHANGED <<restVars, wPlan, wInput, wClock, wTimerDue, pickVars, deviceVars, schedVars>>

\* the awaited writeHolding settles
WriteSettles(ok) ==
  /\ wPc = "writing"
  /\ LET logged == [wLog EXCEPT ![Len(wLog)].end = Some(wClock), ![Len(wLog)].ok = ok]
         d == settleDelay(wPlan[wIdx])
     IN IF writeOutcome(ok) = "thrown"
        THEN /\ wPc' = "failed"
             /\ wLog' = logged
             /\ UNCHANGED <<wIdx, wTimerDue>>
        ELSE IF d # 0
        THEN /\ wPc' = "delay"
             /\ wTimerDue' = Some(wClock + d)
             /\ wLog' = logged
             /\ UNCHANGED wIdx
        ELSE /\ StartStep(logged, wIdx + 1)
             /\ UNCHANGED wTimerDue
  /\ UNCHANGED <<restVars, wPlan, wInput, wClock, pickVars, deviceVars, schedVars>>

\* the setTimeout(resolve, step.delayMs) callback
SettleTimerFires ==
  /\ wPc = "delay"
  /\ wClock >= Val(wTimerDue)
  /\ wTimerDue' = None
  /\ StartStep(wLog, wIdx + 1)
  /\ UNCHANGED <<restVars, wPlan, wInput, wClock, pickVars, deviceVars, schedVars>>

\* time passes
ClockAdvance ==
  /\ wPc \in {"writing", "delay"}
  /\ \E d \in ClockSteps :
       /\ wClock + d <= MaxClock
       /\ wClock' = wClock + d
  /\ UNCHANGED <<restVars, wPlan, wInput, wPc, wIdx, wLog, wTimerDue, pickVars, deviceVars, schedVars>>

InitWrite ==
  /\ wPlan \in Plans
  /\ wInput \in WriteInputs
  /\ wPc = "idle" /\ wIdx = 0 /\ wLog = <<>> /\ wClock = 0 /\ wTimerDue = None
  /\ PickIdle /\ SchedIdle /\ RestIdle

NextWrite ==
  \/ WriteCall
  \/ \E ok \in BOOLEAN : WriteSettles(ok)
  \/ SettleTimerFires
  \/ ClockAdvance

SpecWrite == InitWrite /\ [][NextWrite]_vars

(***************************************************************************)
(* Claims about applyWriteDefinition (SpecWrite)                           *)
(***************************************************************************)
\* C9: the steps are written strictly in list order, step k + 1 only after
\* the write of step k completed; after a failed write no later step is
\* written, the step is not written again, and the call rejects.
C9_StepsInOrderAbortOnFailure ==
  /\ \A k \in 1..Len(wLog) :
       /\ wLog[k].idx = k
       /\ wLog[k].address = wPlan[k].address
       /\ wLog[k].value = StepValue(wPlan[k], wInput)
  /\ \A k \in 1..(Len(wLog) - 1) :
       /\ wLog[k].end # None
       /\ wLog[k].ok
       /\ wLog[k + 1].start >= Val(wLog[k].end)
  /\ (wPc = "failed") <=>
       (wLog # <<>> /\ wLog[Len(wLog)].end # None /\ ~wLog[Len(wLog)].ok)
  /\ wPc = "done" => (Len(wLog) = Len(wPlan) /\ \A k \in 1..Len(wLog) : wLog[k].ok)

\* C9 witness: the first write of a two-step plan completed, the second failed
C9_Witness ==
  /\ Len(wPlan) = 2
  /\ wPc = "failed"
  /\ Len(wLog) = 2
  /\ wLog[1].ok

\* C10: the write that follows a step with a settle delay d starts no
\* earlier than d after the write of the delayed step completed.
C10_SettleDelayHonoured ==
  \A k \in 1..(Len(wLog) - 1) :
    (IsSome(wPlan[k].delayMs) /\ wLog[k].end # None) =>
       wLog[k + 1].start >= Val(wLog[k].end) + Val(wPlan[k].delayMs)

\* C10 witness: a two-step plan with a 100 ms delay after step one, step one
\* completed after time 0, step two has started
C10_Witness ==
  /\ Len(wPlan) = 2
  /\ wPlan[1].delayMs = Some(100)
  /\ Len(wLog) = 2
  /\ Val(wLog[1].end) > 0
  /\ wLog[2].start >= Val(wLog[1].end) + 100

(***************************************************************************)
(* resolveModeValue(values, mode)                                          *)
(***************************************************************************)
\* Object.entries(values).find(([, name]) => name === mode): the first entry
\* in key order whose label is the string asked for, None when there is none
FindEntry(entries, mode) ==
  IF ~mode.isNumber /\ \E k \in 1..Len(entries) : entries[k][2] = mode.s
  THEN Some(entries[CHOOSE k \in 1..Len(entries) :
                      /\ entries[k][2] = mode.s
                      /\ \A j \in 1..(k - 1) : entries[j][2] # mode.s])
  ELSE None

resolveModeValueParseFirst(entries, mode) ==
  LET parsed == ParseInt(ModeToStr(mode))
      entry == FindEntry(entries, mode)
  IN IF mode.isNumber THEN mode.n
     ELSE IF IsSome(parsed) THEN Val(parsed)
     ELSE IF IsSome(entry) THEN Val(entry)[1] ELSE 0

resolveModeValue(entries, mode) ==
  LET entry == FindEntry(entries, mode)
      parsed == ParseInt(ModeToStr(mode))
  IN IF mode.isNumber THEN mode.n
     ELSE IF IsSome(entry) THEN Val(entry)[1]
     ELSE IF IsSome(parsed) THEN Val(parsed) ELSE 0

sOff == <<"O", "f", "f">>
sAuto == <<"A", "u", "t", "o">>
sVentilation == <<"V", "e", "n", "t", "i", "l", "a", "t", "i", "o", "n">>
sUnknownLabel == <<"u", "n", "k", "n", "o", "w", "n", "-", "l", "a", "b", "e", "l">>
sOne == <<"1">>
sTwo == <<"2">>

\* the mappings tried: {}, {0: Off, 1: Auto, 2: Ventilation}, the values of
\* the unit definition, a mapping with a label that is a numeral, one with a
\* label at two keys, and one whose keys are not 0..n-1
OffAutoVentilation == <<<<0, sOff>>, <<1, sAuto>>, <<2, sVentilation>>>>

ResolveMappings ==
  { <<>>,
    OffAutoVentilation,
    [k \in 1..Len(modeValues) |-> <<k - 1, modeValues[k]>>],
    <<<<0, sOne>>, <<1, sAuto>>>>,
    <<<<1, sAuto>>, <<3, sAuto>>>>,
    <<<<2, sOff>>, <<5, sAuto>>>> }

ResolveModes ==
  {NumMode(n) : n \in {-1, 0, 2, 7}} \cup
  {StrMode(x) : x \in {sOff, sAuto, sVentilation, sUnknownLabel, sOne, sTwo,
                        modeValues[3], <<"1", "2", "a", "b", "c">>, <<" ", "7">>, <<"-", "3">>, <<"+", "4">>, <<>>, <<"x", "9">>}}

InitResolve ==
  /\ rValues \in ResolveMappings
  /\ rMode \in ResolveModes
  /\ rResult = None
  /\ ScaleIdle /\ UtilIdle
  /\ PickIdle /\ SchedIdle /\ WriteIdle /\ ConnIdle /\ LinkIdle /\ DownIdle /\ CmdIdle /\ LifeIdle

ResolveApply ==
  /\ rResult = None
  /\ rResult' = Some(resolveModeValue(rValues, rMode))
  /\ UNCHANGED <<coreVars, connVars, linkVars, downVars, cmdVars, lifeVars, rValues, rMode,
                 scaleVars, utilVars>>

NextResolve == ResolveApply

SpecResolve == InitResolve /\ [][NextResolve]_vars

\* the keys of the entries that carry the label asked for
KeysOfLabel == {rValues[k][1] : k \in {j \in 1..Len(rValues) : rValues[j][2] = rMode.s}}

\* C11: resolveModeValue returns the number itself for a number; otherwise
\* the key of the entry whose label is the string; otherwise the integer
\* parsed from the string; otherwise 0.
C11_ResolveModeValue ==
  rResult # None =>
    LET r == Val(rResult) IN
    /\ rMode.isNumber => r = rMode.n
    /\ (~rMode.isNumber /\ KeysOfLabel # {}) =>
         (r \in KeysOfLabel /\ \A k \in KeysOfLabel : r <= k)
    /\ (~rMode.isNumber /\ KeysOfLabel = {} /\ ParseInt(rMode.s) # None) =>
         r = Val(ParseInt(rMode.s))
    /\ (~rMode.isNumber /\ KeysOfLabel = {} /\ ParseInt(rMode.s) = None) => r = 0
    /\ (rValues = OffAutoVentilation /\ rMode = StrMode(sVentilation)) => r = 2
    /\ rMode = NumMode(2) => r = 2
    /\ (rValues = <<>> /\ rMode = StrMode(sUnknownLabel)) => r = 0

\* C11 witness: a label that is also a numeral resolves to its key, not to
\* the number it spells
C11_Witness ==
  /\ rValues = <<<<0, sOne>>, <<1, sAuto>>>>
  /\ rMode = StrMode(sOne)
  /\ rResult = Some(0)

(***************************************************************************)
(* ModbusTcpClient: connect, scheduleReconnect, safeDisconnect, and the    *)
(* register operations. The client is the record mb; the port is the TCP   *)
(* port object of the modbus-serial client (this.client).                  *)
(***************************************************************************)
MaxPendingCloses == 2
MaxTimerConnects == 1

NewClient == [connected |-> FALSE, reconnectTimer |-> FALSE, portOpen |-> FALSE,
              closePending |-> 0, dropped |-> FALSE]

\* safeDisconnect() up to its return: nothing when not connected, otherwise
\* client.close(cb) closes the port and leaves the callback pending
safeDisconnect(m) ==
  IF ~m.connected THEN m
  ELSE [m EXCEPT !.portOpen = FALSE,
                 !.closePending = IF @ < MaxPendingCloses THEN @ + 1 ELSE @]

\* the callback of client.close: this.connected = false
closeCallback(m) == [m EXCEPT !.connected = FALSE, !.closePending = @ - 1]

\* scheduleReconnect(): one timer at most
scheduleReconnect(m) ==
  IF m.reconnectTimer THEN m ELSE [m EXCEPT !.reconnectTimer = TRUE]

\* client.connectTCP(host, {port}, cb): a new port replaces the client's port
connectTCP(m) == [m EXCEPT !.portOpen = FALSE]

\* what the callback of connectTCP can be called with
ConnectResults == IF reachable THEN {"ok", "setIdThrows"} ELSE {"err"}

\* the callback of connectTCP: err -> scheduleReconnect and reject; otherwise
\* setID and connected = true and resolve, or reject when setID throws
connectCallback(m, res) ==
  CASE res = "err" -> scheduleReconnect(m)
    [] res = "ok" -> [m EXCEPT !.portOpen = TRUE, !.connected = TRUE, !.dropped = FALSE]
    [] res = "setIdThrows" -> [m EXCEPT !.portOpen = TRUE]

\* the error connect() rejects with (None: it resolves)
connectError(res) ==
  CASE res = "err" -> Some("connectError")
    [] res = "ok" -> None
    [] res = "setIdThrows" -> Some("setIdError")

\* readHolding / readInput / writeHolding succeed on an open port of a
\* device that answers
opSucceeds == mb.portOpen /\ reachable

(***************************************************************************)
(* Callers of withTempModbusClient. The operation fn is one or two         *)
(* register operations in sequence and returns "result", or it throws      *)
(* before any register operation.                                          *)
(***************************************************************************)
Callers == {"tick", "monitor"}

Fns == {"one", "two", "throws"}

IdleCall == [pc |-> "idle", fn |-> "none", err |-> None, disc |-> 0, out |-> None]

\* where fn(client) is after its synchronous start
FnStart(fn) == CASE fn = "one" -> "op2" [] fn = "two" -> "op1" [] fn = "throws" -> "thrown"

Resolved(v) == Some([kind |-> "resolved", value |-> v])
Rejected(e) == Some([kind |-> "rejected", value |-> e])

\* await this.safeDisconnect() of connect() has returned: connectTCP is called
ConnectTeardownDone(c) ==
  /\ calls[c].pc = "teardown"
  /\ mb' = connectTCP(mb)
  /\ calls' = [calls EXCEPT ![c].pc = "tcp"]
  /\ UNCHANGED <<coreVars, resolveVars, lifeVars, cmdVars, linkVars, downVars, reachable, tConnects>>

\* the reconnect timer fires: reconnectTimer = null; void this.connect()
TimerFire ==
  /\ mb.reconnectTimer
  /\ tConnects.teardown + tConnects.tcp < MaxTimerConnects
  /\ mb' = safeDisconnect([mb EXCEPT !.reconnectTimer = FALSE])
  /\ tConnects' = [tConnects EXCEPT !.teardown = @ + 1]
  /\ UNCHANGED <<coreVars, resolveVars, lifeVars, cmdVars, linkVars, downVars, reachable, calls>>

TimerTeardownDone ==
  /\ tConnects.teardown > 0
  /\ mb' = connectTCP(mb)
  /\ tConnects' = [teardown |-> tConnects.teardown - 1, tcp |-> tConnects.tcp + 1]
  /\ UNCHANGED <<coreVars, resolveVars, lifeVars, cmdVars, linkVars, downVars, reachable, calls>>

\* the callback of the timer's connect(); its rejection is swallowed
TimerConnectCallback(res) ==
  /\ tConnects.tcp > 0
  /\ res \in ConnectResults
  /\ mb' = connectCallback(mb, res)
  /\ tConnects' = [tConnects EXCEPT !.tcp = @ - 1]
  /\ UNCHANGED <<coreVars, resolveVars, lifeVars, cmdVars, linkVars, downVars, reachable, calls>>

CloseCallback ==
  /\ mb.closePending > 0
  /\ mb' = closeCallback(mb)
  /\ UNCHANGED <<coreVars, resolveVars, lifeVars, cmdVars, linkVars, downVars, reachable, tConnects, calls>>

\* the TCP connection of the client's port is lost; the client has no
\* listener for it
Drop ==
  /\ mb.portOpen
  /\ mb' = [mb EXCEPT !.portOpen = FALSE, !.dropped = mb.connected]
  /\ UNCHANGED <<coreVars, resolveVars, lifeVars, cmdVars, linkVars, downVars, reachable, tConnects, calls>>

SetReachable ==
  /\ reachable' = ~reachable
  /\ UNCHANGED <<coreVars, resolveVars, lifeVars, cmdVars, linkVars, downVars, mb, tConnects, calls>>

InitConn ==
  /\ reachable \in BOOLEAN
  /\ mb = NewClient
  /\ tConnects = [teardown |-> 0, tcp |-> 0]
  /\ calls = [c \in Callers |-> IdleCall]
  /\ PickIdle /\ SchedIdle /\ WriteIdle /\ ResolveIdle /\ LinkIdle /\ DownIdle /\ CmdIdle /\ LifeIdle

(***************************************************************************)
(* The ephemeral withTempModbusClient (services/hruService.ts): a fresh    *)
(* client for one call                                                     *)
(***************************************************************************)
TempCallers == {"tick"}

catchBlockRethrowOnly(call, m, e) ==
  [call |-> [call EXCEPT !.pc = "release", !.err = Some(e)], m |-> m]

\* catch (e) { await client.safeDisconnect(); throw e; }
catchBlock(call, m, e) ==
  [call |-> [call EXCEPT !.pc = "release", !.err = Some(e), !.disc = @ + 1],
   m |-> safeDisconnect(m)]

\* withTempModbusClient(cfg, logger, fn) up to the await inside connect()
TempCall(c) ==
  /\ calls[c] = IdleCall
  /\ mb' = safeDisconnect(mb)
  /\ \E fn \in Fns : calls' = [calls EXCEPT ![c].pc = "teardown", ![c].fn = fn]
  /\ UNCHANGED <<coreVars, resolveVars, lifeVars, cmdVars, linkVars, downVars, reachable, tConnects>>

TempConnectCallback(c, res) ==
  /\ calls[c].pc = "tcp"
  /\ res \in ConnectResults
  /\ LET m1 == connectCallback(mb, res)
         e == connectError(res)
         r == IF e # None THEN catchBlock(calls[c], m1, Val(e))
              ELSE IF calls[c].fn = "throws" THEN catchBlock(calls[c], m1, "fnError")
              ELSE [call |-> [calls[c] EXCEPT !.pc = FnStart(calls[c].fn)], m |-> m1]
     IN mb' = r.m /\ calls' = [calls EXCEPT ![c] = r.call]
  /\ UNCHANGED <<coreVars, resolveVars, lifeVars, cmdVars, linkVars, downVars, reachable, tConnects>>

\* a register operation of fn settles
TempOpDone(c) ==
  /\ calls[c].pc \in {"op1", "op2"}
  /\ IF ~opSucceeds
     THEN LET r == catchBlock(calls[c], mb, "opError")
          IN mb' = r.m /\ calls' = [calls EXCEPT ![c] = r.call]
     ELSE IF calls[c].pc = "op1"
     THEN mb' = mb /\ calls' = [calls EXCEPT ![c].pc = "op2"]
     ELSE /\ mb' = safeDisconnect(mb)
          /\ calls' = [calls EXCEPT ![c].pc = "release", ![c].disc = @ + 1]
  /\ UNCHANGED <<coreVars, resolveVars, lifeVars, cmdVars, linkVars, downVars, reachable, tConnects>>

\* await client.safeDisconnect() has returned: return result / throw e
TempReleaseDone(c) ==
  /\ calls[c].pc = "release"
  /\ calls' = [calls EXCEPT ![c].pc = "idle",
                            ![c].out = IF calls[c].err = None THEN Resolved("result")
                                       ELSE Rejected(Val(calls[c].err))]
  /\ UNCHANGED <<coreVars, resolveVars, lifeVars, cmdVars, linkVars, downVars, reachable, mb, tConnects>>

NextTemp ==
  \/ \E c \in TempCallers : TempCall(c)
  \/ \E c \in TempCallers : ConnectTeardownDone(c)
  \/ \E c \in TempCallers, res \in {"ok", "err", "setIdThrows"} : TempConnectCallback(c, res)
  \/ \E c \in TempCallers : TempOpDone(c)
  \/ \E c \in TempCallers : TempReleaseDone(c)
  \/ TimerFire
  \/ TimerTeardownDone
  \/ \E res \in {"ok", "err", "setIdThrows"} : TimerConnectCallback(res)
  \/ CloseCallback
  \/ Drop
  \/ SetReachable

SpecTemp == InitConn /\ [][NextTemp]_vars

\* C12: the ephemeral withTempModbusClient calls safeDisconnect before it
\* exits on every path, and not before the operation has settled: it
\* returns the result of the operation when the operation resolves, and
\* rethrows the original error when connect or the operation rejects.
C12_DisconnectOnEveryExit ==
  \A c \in TempCallers :
    LET call == calls[c] IN
    /\ call.pc \in {"teardown", "tcp", "op1", "op2"} =>
         (call.disc = 0 /\ call.err = None /\ call.out = None)
    /\ call.pc = "release" => (call.disc = 1 /\ call.out = None)
    /\ call.out # None =>
         /\ call.pc = "idle"
         /\ call.disc = 1
         /\ call.err = None => call.out = Resolved("result")
         /\ call.err # None => call.out = Rejected(Val(call.err))

\* C12 witness: connect rejected, safeDisconnect was called, and the call
\* rejected with the error of connect
C12_Witness ==
  /\ calls["tick"].out = Rejected("connectError")
  /\ calls["tick"].disc = 1

\* the step in which the connect() that caller c awaits settles
ConnectRejects(c) ==
  /\ calls[c].pc = "tcp"
  /\ calls'[c].err \in {Some("connectError"), Some("setIdError")}

ConnectResolves(c) ==
  /\ calls[c].pc = "tcp"
  /\ calls'[c].pc # "tcp"
  /\ ~ConnectRejects(c)

\* C13 (as claimed): connect() resolves only with the client marked
\* connected on an open port, and whenever it rejects a reconnect is
\* scheduled.
C13_ConnectRejectSchedulesReconnect ==
  [][\A c \in Callers :
       /\ ConnectResolves(c) => mb'.connected
       /\ ConnectRejects(c) => mb'.reconnectTimer]_vars

(***************************************************************************)
(* The shared withTempModbusClient (part_007): getSharedModbusClient       *)
(* returns the one cached client of the identity; every caller uses mb     *)
(***************************************************************************)
\* withTempModbusClient(cfg, logger, fn): if (!client.isConnected()) await
\* client.connect(); return fn(client)
SharedCall(c) ==
  /\ calls[c].pc = "idle"
  /\ \E fn \in Fns :
       IF ~mb.connected
       THEN /\ mb' = safeDisconnect(mb)
            /\ calls' = [calls EXCEPT ![c] = [IdleCall EXCEPT !.pc = "teardown", !.fn = fn]]
       ELSE /\ mb' = mb
            /\ calls' = [calls EXCEPT ![c] =
                 IF fn = "throws"
                 THEN [IdleCall EXCEPT !.fn = fn, !.err = Some("fnError"),
                                       !.out = Rejected("fnError")]
                 ELSE [IdleCall EXCEPT !.pc = FnStart(fn), !.fn = fn]]
  /\ UNCHANGED <<coreVars, resolveVars, lifeVars, cmdVars, linkVars, downVars, reachable, tConnects>>

SharedConnectCallback(c, res) ==
  /\ calls[c].pc = "tcp"
  /\ res \in ConnectResults
  /\ mb' = connectCallback(mb, res)
  /\ LET e == IF connectError(res) # None THEN connectError(res)
              ELSE IF calls[c].fn = "throws" THEN Some("fnError") ELSE None
     IN calls' = [calls EXCEPT ![c] =
          IF e # None
          THEN [calls[c] EXCEPT !.pc = "idle", !.err = e, !.out = Rejected(Val(e))]
          ELSE [calls[c] EXCEPT !.pc = FnStart(calls[c].fn)]]
  /\ UNCHANGED <<coreVars, resolveVars, lifeVars, cmdVars, linkVars, downVars, reachable, tConnects>>

SharedOpDone(c) ==
  /\ calls[c].pc \in {"op1", "op2"}
  /\ calls' = [calls EXCEPT ![c] =
       IF ~opSucceeds
       THEN [calls[c] EXCEPT !.pc = "idle", !.err = Some("opError"),
                             !.out = Rejected("opError")]
       ELSE IF calls[c].pc = "op1" THEN [calls[c] EXCEPT !.pc = "op2"]
       ELSE [calls[c] EXCEPT !.pc = "idle", !.out = Resolved("result")]]
  /\ UNCHANGED <<coreVars, resolveVars, lifeVars, cmdVars, linkVars, downVars, reachable, mb, tConnects>>

NextShared ==
  \/ \E c \in Callers : SharedCall(c)
  \/ \E c \in Callers : ConnectTeardownDone(c)
  \/ \E c \in Callers, res \in {"ok", "err", "setIdThrows"} : SharedConnectCallback(c, res)
  \/ \E c \in Callers : SharedOpDone(c)
  \/ TimerFire
  \/ TimerTeardownDone
  \/ \E res \in {"ok", "err", "setIdThrows"} : TimerConnectCallback(res)
  \/ CloseCallback
  \/ Drop
  \/ SetReachable

SpecShared == InitConn /\ [][NextShared]_vars

\* the callers, the timer and the callbacks keep running; the device and the
\* network are not obliged to do anything
FairShared ==
  /\ \A c \in Callers : WF_vars(SharedCall(c))
  /\ \A c \in Callers : WF_vars(ConnectTeardownDone(c))
  /\ \A c \in Callers : WF_vars(\E res \in {"ok", "err", "setIdThrows"} : SharedConnectCallback(c, res))
  /\ \A c \in Callers : WF_vars(SharedOpDone(c))
  /\ WF_vars(TimerFire)
  /\ WF_vars(TimerTeardownDone)
  /\ WF_vars(\E res \in {"ok", "err", "setIdThrows"} : TimerConnectCallback(res))
  /\ WF_vars(CloseCallback)

SpecSharedFair == SpecShared /\ FairShared

\* the connectTCP calls of the client whose callback is pending
ConnectsInFlight ==
  Cardinality({c \in Callers : calls[c].pc = "tcp"}) + tConnects.tcp

\* C14 (as claimed): for the identity of the shared client at most one
\* connection is open or being opened at any time.
C14_OneConnectionPerIdentity ==
  ConnectsInFlight + (IF mb.portOpen THEN 1 ELSE 0) <= 1

\* a register operation of some caller is in progress on an open port
RunsOnOpen == mb.portOpen /\ \E c \in Callers : calls[c].pc \in {"op1", "op2"}

\* C15 (as claimed): if the device stays reachable from some time on, then
\* after the connection of the connected shared client has dropped, a
\* register operation eventually runs on an open connection.
C15_RecreatedAfterDrop ==
  (<>[]reachable) => [](mb.dropped => <>RunsOnOpen)

\* C16 (as claimed): at most one caller is inside its operation (between the
\* start of its first and the end of its last register operation).
C16_OperationsExclusive ==
  Cardinality({c \in Callers : calls[c].pc \in {"op1", "op2"}}) <= 1

\* ---------------------------------------------------------------------
\* HomeAssistantClient.subscribeLuftatorEvents: the upstream link
\* ---------------------------------------------------------------------

RECONNECT_DELAY_MS == 5000

LUFTATOR_ENTITY_PREFIX == <<"n", "u", "m", "b", "e", "r", ".", "l", "u", "f", "t", "a", "t", "o", "r", "_">>

\* sockets one subscription may create (the first and the reconnects)
MaxLinkAttempts == 3

\* String.prototype.startsWith
StartsWith(str, prefix) ==
  /\ Len(str) >= Len(prefix)
  /\ SubSeq(str, 1, Len(prefix)) = prefix

\* String.prototype.includes
Includes(str, prefix) ==
  \E i \in 0..(Len(str) - Len(prefix)) :
    SubSeq(str, i + 1, i + Len(prefix)) = prefix

\* the socket `new WebSocket(...)` returns, with what it has carried so far
NewSocket ==
  [readyState |-> "connecting", sent |-> <<>>, rcvd |-> {}, closeCode |-> 0]

\* the handle of a timer setTimeout has armed and that is still pending
PendingHandle == Some(RECONNECT_DELAY_MS)

\* the handle of a timer whose callback is running: nothing is pending behind
\* it any more, and clearTimeout on it does nothing
FiredHandle == Some(0)

\* clearReconnectTimer: clearTimeout on the handle held, reconnectTimer = null
clearReconnectTimer(l) ==
  [l EXCEPT !.reconnectTimer = None,
            !.pendingTimers = IF l.reconnectTimer = PendingHandle
                                THEN @ - 1 ELSE @]

\* cleanupSocket: removeAllListeners, terminate, socket = null
cleanupSocket(l) ==
  [l EXCEPT !.socket = None,
            !.liveSockets = IF IsSome(l.socket)
                                 /\ Val(l.socket).readyState # "closed"
                              THEN @ - 1 ELSE @]

\* setTimeout(connect, RECONNECT_DELAY_MS)
setReconnectTimer(l) ==
  [l EXCEPT !.reconnectTimer = PendingHandle, !.pendingTimers = @ + 1]

\* the timer's delay has passed: the timer leaves the pending ones and its
\* callback starts with the handle still in reconnectTimer
timerFired(l) ==
  [l EXCEPT !.reconnectTimer = FiredHandle, !.pendingTimers = @ - 1]

scheduleReconnectWhenSubscribed(l) ==
  IF l.active /\ IsSome(l.socket) /\ "event" \in Val(l.socket).rcvd
    THEN setReconnectTimer(clearReconnectTimer(l))
    ELSE clearReconnectTimer(l)

\* scheduleReconnect(reason)
scheduleReconnect_link(l) ==
  IF l.active
    THEN setReconnectTimer(clearReconnectTimer(l))
    ELSE clearReconnectTimer(l)

\* new WebSocket(websocketUrl, ...): one more live socket, held in `socket`
openSocket(l) ==
  [l EXCEPT !.socket = Some(NewSocket), !.attempt = @ + 1,
            !.liveSockets = @ + 1]

\* a connect() that cleans nothing up and arms a retry timer behind the
\* socket it opens
connectRearming(l) == setReconnectTimer(openSocket(l))

\* connect(), called with active = true
connect(l) == openSocket(clearReconnectTimer(cleanupSocket(l)))

replySubscribeEarly(type) ==
  IF type \in {"auth_required", "auth_ok"} THEN Some("subscribe_events")
  ELSE None

\* what handleWebSocketMessage sends in answer to a message of this type
reply(type) ==
  IF type = "auth_required" THEN Some("auth")
  ELSE IF type = "auth_ok" THEN Some("subscribe_events")
  ELSE None

closeCodeNone(type) == 0

\* the code handleWebSocketMessage closes the socket with (0: no close)
closeCodeFor(type) == IF type = "auth_invalid" THEN 1011 ELSE 0

\* socket.send on this socket: ws transmits only on an open socket
send(sock, type) ==
  IF sock.readyState = "open"
    THEN [sock EXCEPT !.sent = Append(sock.sent, type)]
    ELSE sock

\* socket.close(code, reason)
close(sock, code) ==
  IF sock.readyState \in {"closing", "closed"} THEN sock
  ELSE [sock EXCEPT !.readyState = "closing", !.closeCode = code]

\* handleWebSocketMessage(message, socket, handler), its effect on the socket
handleWebSocketMessage(sock, type) ==
  LET answered == IF IsSome(reply(type)) THEN send(sock, Val(reply(type)))
                  ELSE sock
      closed   == IF closeCodeFor(type) # 0
                    THEN close(answered, closeCodeFor(type))
                    ELSE answered
  IN  [closed EXCEPT !.rcvd = closed.rcvd \cup {type}]

acceptsIncludes(ev) ==
  /\ ev.hasEvent
  /\ IsSome(ev.entity_id) /\ Val(ev.entity_id) # <<>>
  /\ ev.new_state = "object"
  /\ Includes(Val(ev.entity_id), LUFTATOR_ENTITY_PREFIX)

\* processEvent: the events that get past its two early returns
accepts(ev) ==
  /\ ev.hasEvent
  /\ IsSome(ev.entity_id) /\ Val(ev.entity_id) # <<>>
  /\ ev.new_state = "object"
  /\ StartsWith(Val(ev.entity_id), LUFTATOR_ENTITY_PREFIX)

EntityIds ==
  { None, Some(<<>>),
    Some(<<"n", "u", "m", "b", "e", "r", ".", "l", "u", "f", "t", "a", "t", "o", "r", "_", "a">>), Some(LUFTATOR_ENTITY_PREFIX),
    Some(<<"n", "u", "m", "b", "e", "r", ".", "l", "u", "f", "t", "a", "t", "o">>), Some(<<"s", "e", "n", "s", "o", "r", ".", "x">>), Some(<<"x", "n", "u", "m", "b", "e", "r", ".", "l", "u", "f", "t", "a", "t", "o", "r", "_", "a">>) }

EventMsgs ==
  [type : {"event"}, hasEvent : {TRUE}, entity_id : EntityIds,
   new_state : {"object", "null", "undefined"}]
  \cup {[type |-> "event", hasEvent |-> FALSE, entity_id |-> None,
         new_state |-> "undefined"]}

PlainMsg(type) ==
  [type |-> type, hasEvent |-> FALSE, entity_id |-> None,
   new_state |-> "undefined"]

AllMsgs ==
  EventMsgs \cup
  {PlainMsg(t) : t \in {"auth_required", "auth_ok", "auth_invalid", "result"}}

\* what Home Assistant sends next on a socket, given what it has received
ServerNext(sock) ==
  IF "auth_required" \notin sock.rcvd THEN {PlainMsg("auth_required")}
  ELSE IF "auth_invalid" \in sock.rcvd THEN {}
  ELSE IF "auth_ok" \notin sock.rcvd
    THEN IF sock.sent = <<"auth">>
           THEN {PlainMsg("auth_ok"), PlainMsg("auth_invalid")}
           ELSE {}
  ELSE IF "subscribe_events" \in Range(sock.sent)
    THEN {PlainMsg("result")} \cup EventMsgs
  ELSE {}

HandlerOutcomes == {"returns", "throws", "rejects"}

\* the state subscribeLuftatorEvents leaves behind: active, and connect() run
InitLink ==
  /\ link = Some([active |-> TRUE, socket |-> Some(NewSocket),
                  reconnectTimer |-> None, attempt |-> 1,
                  liveSockets |-> 1, pendingTimers |-> 0])
  /\ lastMsg = None
  /\ handled = None
  /\ PickIdle /\ SchedIdle /\ WriteIdle /\ ResolveIdle /\ ConnIdle /\ DownIdle /\ CmdIdle /\ LifeIdle

Link == Val(link)
Sock == Val(Link.socket)

\* socket.on("open"): logs
SocketOpen ==
  /\ IsSome(Link.socket) /\ Sock.readyState = "connecting"
  /\ link' = Some([Link EXCEPT !.socket = Some([Sock EXCEPT !.readyState = "open"])])
  /\ UNCHANGED <<coreVars, resolveVars, lifeVars, cmdVars, connVars, downVars, lastMsg, handled>>

\* socket.on("message"): parse, handleWebSocketMessage, processEvent; every
\* exception is caught and logged by the listener
SocketMessage(msg, outcome) ==
  /\ IsSome(Link.socket) /\ Sock.readyState = "open"
  /\ msg \in ServerNext(Sock)
  /\ link' = Some([Link EXCEPT
                     !.socket = Some(handleWebSocketMessage(Sock, msg.type))])
  /\ lastMsg' = Some(msg)
  /\ handled' = IF msg.type = "event" /\ accepts(msg)
                  THEN Some([entity_id |-> Val(msg.entity_id),
                             outcome |-> outcome])
                  ELSE None
  /\ UNCHANGED <<coreVars, resolveVars, lifeVars, cmdVars, connVars, downVars>>

\* socket.on("error"): logs; ws then closes the socket
SocketError ==
  /\ IsSome(Link.socket) /\ Sock.readyState \in {"connecting", "open"}
  /\ link' = Some([Link EXCEPT !.socket = Some(close(Sock, 1006))])
  /\ UNCHANGED <<coreVars, resolveVars, lifeVars, cmdVars, connVars, downVars, lastMsg, handled>>

\* socket.on("close"): scheduleReconnect
SocketClose ==
  /\ IsSome(Link.socket) /\ Sock.readyState # "closed"
  /\ link' = Some(scheduleReconnect_link(
                    [Link EXCEPT !.socket =
                       Some([Sock EXCEPT
                               !.readyState = "closed",
                               !.closeCode = IF Sock.readyState = "closing"
                                               THEN Sock.closeCode
                                               ELSE 1006]),
                                 !.liveSockets = @ - 1]))
  /\ UNCHANGED <<coreVars, resolveVars, lifeVars, cmdVars, connVars, downVars, lastMsg, handled>>

\* the reconnect timer fires: connect()
ReconnectTimerFire ==
  /\ IsSome(Link.reconnectTimer)
  /\ Link.attempt < MaxLinkAttempts
  /\ link' = Some(IF Link.active THEN connect(timerFired(Link))
                  ELSE clearReconnectTimer(timerFired(Link)))
  /\ UNCHANGED <<coreVars, resolveVars, lifeVars, cmdVars, connVars, downVars, lastMsg, handled>>

\* the function subscribeLuftatorEvents returns
\* the closure subscribe() returns: active = false, clearReconnectTimer(),
\* cleanupSocket()
unsubscribe(l) == cleanupSocket(clearReconnectTimer([l EXCEPT !.active = FALSE]))

Unsubscribe ==
  /\ Link.active
  /\ link' = Some(unsubscribe(Link))
  /\ UNCHANGED <<coreVars, resolveVars, lifeVars, cmdVars, connVars, downVars, lastMsg, handled>>

NextLink ==
  \/ SocketOpen
  \/ \E msg \in AllMsgs, outcome \in HandlerOutcomes :
       SocketMessage(msg, outcome)
  \/ SocketError
  \/ SocketClose
  \/ ReconnectTimerFire
  \/ Unsubscribe

SpecLink == InitLink /\ [][NextLink]_vars

\* the link's state, read off the socket and what it has carried
LinkState(l) ==
  IF ~IsSome(l.socket) THEN "disconnected"
  ELSE LET sock == Val(l.socket) IN
    IF sock.readyState \in {"closing", "closed"} THEN "disconnected"
    ELSE IF sock.readyState = "connecting" THEN "connecting"
    ELSE IF sock.sent = <<>> THEN "awaiting auth"
    ELSE IF "subscribe_events" \notin Range(sock.sent)
      THEN "sending credentials"
    ELSE IF sock.rcvd \cap {"result", "event"} = {} THEN "subscribing"
    ELSE "subscribed"

\* a step in which the "close" listener of the current socket runs
CloseEvent ==
  /\ Link.active /\ IsSome(Link.socket) /\ Sock.readyState # "closed"
  /\ IsSome(Val(link').socket)
  /\ Val(Val(link').socket).readyState = "closed"

\* a step in which the reconnect timer fires
TimerEvent ==
  /\ IsSome(Link.reconnectTimer) /\ ~IsSome(Val(link').reconnectTimer)
  /\ Val(link').active

\* C17: while the subscription is active, a transport error or a close of
\* the socket, whatever the handshake had reached, leaves the link
\* disconnected; the close schedules one reconnect RECONNECT_DELAY_MS (5 s)
\* later, which stays pending while the closed socket is the current one; and
\* the timer's firing opens a fresh socket on which nothing has been sent or
\* received, so the whole handshake is repeated.
C17_CloseSchedulesReconnect ==
  [][/\ CloseEvent =>
          /\ Val(link').reconnectTimer = Some(RECONNECT_DELAY_MS)
          /\ LinkState(Val(link')) = "disconnected"
     /\ (SocketError /\ Link.active) => LinkState(Val(link')) = "disconnected"
     /\ (/\ Val(link').active /\ IsSome(Val(link').socket)
         /\ Val(Val(link').socket).readyState = "closed")
          => Val(link').reconnectTimer = Some(RECONNECT_DELAY_MS)
     /\ TimerEvent =>
          /\ Val(link').socket = Some(NewSocket)
          /\ Val(link').attempt = Link.attempt + 1
          /\ LinkState(Val(link')) = "connecting"]_vars

\* a socket opened by a reconnect (the second of the subscription or a later
\* one) has run the handshake through to the subscription
C17_Witness ==
  /\ link # None /\ Link.active /\ Link.attempt >= 2
  /\ LinkState(Link) = "subscribed"

\* C18: once the current socket has delivered auth_invalid, it has been
\* closed with code 1011 (the code no other close of the model carries), no
\* subscribe_events request has been sent on it, the subscription state is
\* intact (nothing was thrown out of the listener), and once its close event
\* has run while active the usual reconnect timer is pending.
C18_AuthInvalidClosesSocket ==
  (link # None /\ IsSome(Link.socket) /\ "auth_invalid" \in Sock.rcvd) =>
    /\ Sock.readyState \in {"closing", "closed"}
    /\ Sock.closeCode = 1011
    /\ "subscribe_events" \notin Range(Sock.sent)
    /\ (Sock.readyState = "closed" /\ Link.active) =>
         Link.reconnectTimer = Some(RECONNECT_DELAY_MS)

\* the credentials were rejected, the socket's close event has run and the
\* reconnect is pending
C18_Witness ==
  /\ link # None /\ Link.active /\ IsSome(Link.socket)
  /\ "auth_invalid" \in Sock.rcvd
  /\ Sock.sent = <<"auth">>
  /\ Sock.readyState = "closed"
  /\ IsSome(Link.reconnectTimer)

LinkStateOrder ==
  <<"disconnected", "connecting", "awaiting auth", "sending credentials",
    "subscribing", "subscribed">>

Rank(state) == CHOOSE i \in 1..Len(LinkStateOrder) : LinkStateOrder[i] = state

\* the last request sent on the socket in this step, if one was sent
SentNow ==
  IF /\ IsSome(Link.socket) /\ IsSome(Val(link').socket)
     /\ Val(link').attempt = Link.attempt
     /\ Len(Val(Val(link').socket).sent) = Len(Sock.sent) + 1
    THEN Some(Val(Val(link').socket).sent[Len(Sock.sent) + 1])
    ELSE None

HasFamilyPrefix(id) ==
  \E n \in 0..Len(id) :
    /\ SubSeq(id, 1, n) = LUFTATOR_ENTITY_PREFIX
    /\ n = Len(LUFTATOR_ENTITY_PREFIX)

\* an event message with an entity id of the device family and a new state
ForHandler(msg) ==
  /\ msg.type = "event" /\ msg.hasEvent
  /\ IsSome(msg.entity_id) /\ HasFamilyPrefix(Val(msg.entity_id))
  /\ msg.new_state = "object"

\* C20: the step that delivers a message invokes the handler exactly when the
\* message is an event whose entity id starts with "number.luftator_" and
\* whose new state is present, and then with that entity id; every other
\* message leaves the handler uninvoked; and whatever the handler does
\* (return, throw, reject), delivering an event leaves active, the reconnect
\* timer and the socket's readyState, requests and close code as they were.
C20_HandlerOnlyForFamilyEvents ==
  [][\A msg \in AllMsgs, outcome \in HandlerOutcomes :
       SocketMessage(msg, outcome) =>
         /\ IsSome(handled') <=> ForHandler(msg)
         /\ IsSome(handled') => Val(handled').entity_id = Val(msg.entity_id)
         /\ msg.type = "event" =>
              /\ Val(link').active = Link.active
              /\ Val(link').reconnectTimer = Link.reconnectTimer
              /\ Val(link').attempt = Link.attempt
              /\ Val(link').socket =
                   Some([Sock EXCEPT !.rcvd = Sock.rcvd \cup {"event"}])
              /\ Val(Val(link').socket).readyState = "open"]_vars

\* the handler threw on an accepted event and the socket is still open,
\* subscribed, with no reconnect pending
C20_Witness ==
  /\ handled # None /\ Val(handled).outcome = "throws"
  /\ lastMsg # None /\ ForHandler(Val(lastMsg))
  /\ Link.active /\ IsSome(Link.socket) /\ Sock.readyState = "open"
  /\ LinkState(Link) = "subscribed"
  /\ Link.reconnectTimer = None

\* ---------------------------------------------------------------------
\* The downstream WebSocket server: clients, broadcast, wss "connection"
\* ---------------------------------------------------------------------

\* the sockets the server accepts, named in the order it accepts them
SubscriberOrder == <<"s1", "s2", "s3">>
Subscribers == Range(SubscriberOrder)

\* frames handed to one subscriber's socket.send
MaxFrames == 2

\* a socket the server has not accepted yet
NoSocket ==
  [readyState |-> "none", peer |-> "ok", handler |-> "none", out |-> <<>>]

\* clients.delete(c)
Delete(cl, c) == SelectSeq(cl, LAMBDA x : x # c)

\* clients.add(c)
Add(cl, c) == IF c \in Range(cl) THEN cl ELSE Append(cl, c)

\* client.send(data) of ws: the frame is queued on an open socket whatever
\* the state of the peer, and dropped without an exception on a closing or
\* closed one
clientSend(sock, type) ==
  IF sock.readyState = "open" THEN [sock EXCEPT !.out = Append(@, type)]
  ELSE sock

RECURSIVE broadcastStopsAtDeadPeer(_, _, _, _)
broadcastStopsAtDeadPeer(todo, cl, d, type) ==
  IF todo = <<>> THEN [clients |-> cl, down |-> d]
  ELSE LET c == Head(todo) IN
    IF d[c].readyState = "open"
      THEN IF d[c].peer = "dead" THEN [clients |-> cl, down |-> d]
           ELSE broadcastStopsAtDeadPeer(Tail(todo), cl,
                  [d EXCEPT ![c] = clientSend(d[c], type)], type)
      ELSE broadcastStopsAtDeadPeer(Tail(todo), Delete(cl, c), d, type)

\* broadcast(message): the loop over Array.from(clients); todo is what is
\* left of that array
RECURSIVE broadcast(_, _, _, _)
broadcast(todo, cl, d, type) ==
  IF todo = <<>> THEN [clients |-> cl, down |-> d]
  ELSE LET c == Head(todo) IN
    IF d[c].readyState = "open"
      THEN broadcast(Tail(todo), cl, [d EXCEPT ![c] = clientSend(d[c], type)], type)
      ELSE broadcast(Tail(todo), Delete(cl, c), d, type)

InitDown ==
  /\ clients = <<>>
  /\ down = [c \in Subscribers |-> NoSocket]
  /\ offline \in BOOLEAN
  /\ PickIdle /\ SchedIdle /\ WriteIdle /\ ResolveIdle /\ ConnIdle /\ LinkIdle /\ CmdIdle /\ LifeIdle

\* wss.on("connection") up to `await valveManager.getSnapshot()`
Connection(c) ==
  /\ down[c].readyState = "none"
  /\ \A k \in 1..Len(SubscriberOrder) :
       SubscriberOrder[k] = c =>
         \A j \in 1..(k - 1) : down[SubscriberOrder[j]].readyState # "none"
  /\ clients' = Add(clients, c)
  /\ down' = [down EXCEPT ![c] = [@ EXCEPT !.readyState = "open",
                                           !.handler = "awaiting"]]
  /\ UNCHANGED <<coreVars, resolveVars, lifeVars, cmdVars, connVars, linkVars, offline>>

\* the awaited getSnapshot() settles: socket.send of the snapshot frame, or
\* the catch block that logs
SnapshotSettled(c, ok) ==
  /\ down[c].handler = "awaiting"
  /\ offline => ok
  /\ down' = [down EXCEPT ![c] =
                [(IF ok THEN clientSend(@, "snapshot") ELSE @)
                   EXCEPT !.handler = "done"]]
  /\ UNCHANGED <<coreVars, resolveVars, lifeVars, cmdVars, connVars, linkVars, clients, offline>>

\* the synchronizer accepts an upstream change and broadcasts the update
UpstreamChange ==
  /\ ~offline
  /\ \A c \in Subscribers : Len(down[c].out) < MaxFrames
  /\ LET after == broadcast(clients, clients, down, "update")
     IN clients' = after.clients /\ down' = after.down
  /\ UNCHANGED <<coreVars, resolveVars, lifeVars, cmdVars, connVars, linkVars, offline>>

\* OfflineValveManager.start(), run again by the database import route:
\* broadcast({ type: "snapshot", payload: [] })
OfflineStart ==
  /\ offline
  /\ \A c \in Subscribers : Len(down[c].out) < MaxFrames
  /\ LET after == broadcast(clients, clients, down, "snapshot")
     IN clients' = after.clients /\ down' = after.down
  /\ UNCHANGED <<coreVars, resolveVars, lifeVars, cmdVars, connVars, linkVars, offline>>

\* the peer stops reading (crashed, unplugged); the socket stays open here
PeerDies(c) ==
  /\ down[c].readyState = "open" /\ down[c].peer = "ok"
  /\ down' = [down EXCEPT ![c] = [@ EXCEPT !.peer = "dead"]]
  /\ UNCHANGED <<coreVars, resolveVars, lifeVars, cmdVars, connVars, linkVars, clients, offline>>

\* socket.on("error"): logs; ws closes the socket afterwards
ClientError(c) ==
  /\ down[c].readyState = "open"
  /\ down' = [down EXCEPT ![c] = [@ EXCEPT !.readyState = "closing"]]
  /\ UNCHANGED <<coreVars, resolveVars, lifeVars, cmdVars, connVars, linkVars, clients, offline>>

\* socket.on("close"): clients.delete(socket)
ClientClose(c) ==
  /\ down[c].readyState \in {"open", "closing"}
  /\ clients' = Delete(clients, c)
  /\ down' = [down EXCEPT ![c] = [@ EXCEPT !.readyState = "closed"]]
  /\ UNCHANGED <<coreVars, resolveVars, lifeVars, cmdVars, connVars, linkVars, offline>>

NextDown ==
  \/ \E c \in Subscribers : Connection(c)
  \/ \E c \in Subscribers, ok \in BOOLEAN : SnapshotSettled(c, ok)
  \/ UpstreamChange
  \/ OfflineStart
  \/ \E c \in Subscribers : PeerDies(c)
  \/ \E c \in Subscribers : ClientError(c)
  \/ \E c \in Subscribers : ClientClose(c)

SpecDown == InitDown /\ [][NextDown]_vars

\* the frames of one kind among those handed to a subscriber
FramesOf(c, type) == SelectSeq(down[c].out, LAMBDA f : f = type)

\* C21 (as claimed): a subscriber is sent no update before its snapshot, at
\* most one snapshot, and exactly one once its connection handler has
\* finished with the socket still open.
C21_SnapshotFirstExactlyOnce ==
  \A c \in Subscribers :
    down # <<>> =>
      /\ down[c].out # <<>> => down[c].out[1] = "snapshot"
      /\ Len(FramesOf(c, "snapshot")) <= 1
      /\ (down[c].handler = "done" /\ down[c].readyState = "open") =>
           Len(FramesOf(c, "snapshot")) = 1

\* a step that runs broadcast, and the frame type it sends
BroadcastStep == UpstreamChange \/ OfflineStart
BroadcastType == IF offline THEN "snapshot" ELSE "update"

MaxUpstreamCalls == 2

ValveIds == {"number.luftator_a", "number.luftator_b"}

\* request.params.entityId: a valve id, or empty
PathIds == ValveIds \cup {""}

\* Number(str) for the strings of the model: white space is trimmed, the
\* empty string is 0, an optionally signed run of digits is its value, and
\* anything else is NaN (None)
NumberOfString(str) ==
  LET i == SkipSpaces(str, 1)
      neg == i <= Len(str) /\ str[i] = "-"
      j == IF i <= Len(str) /\ (str[i] = "-" \/ str[i] = "+") THEN i + 1 ELSE i
      n == DigitRun(str, j)
  IN IF i > Len(str) THEN Some(0)
     ELSE IF n = 0 \/ SkipSpaces(str, j + n) <= Len(str) THEN None
     ELSE Some(IF neg THEN 0 - DigitsValue(str, j, n) ELSE DigitsValue(str, j, n))

\* request.body.value
BodyValues ==
  {[kind |-> "undefined"], [kind |-> "null"], [kind |-> "nan"],
   [kind |-> "number", n |-> 50],
   [kind |-> "string", str |-> <<"5", "0">>],
   [kind |-> "string", str |-> <<"a", "b", "c">>],
   [kind |-> "string", str |-> <<>>]}

\* numericValue of the route: None for undefined or NaN ("Missing or invalid
\* 'value' in payload"), else the number passed on as Number(numericValue)
numericValue(value) ==
  CASE value.kind = "string" -> NumberOfString(value.str)
    [] value.kind = "number" -> Some(value.n)
    [] value.kind = "null" -> Some(0)
    [] OTHER -> None

\* OfflineValveManager.setValue: always throws
offlineSetValue == Some("Offline mode: valve control unavailable")

\* ValveManager.setValue before any await: the unknown-entity error for an
\* entity absent from the snapshot, else on to the upstream call (None)
managerSetValue(entityId) ==
  IF entityId \notin snapshot THEN Some("Unknown valve") ELSE None

\* valveManager.setValue of the manager the server constructed
setValueThrows(entityId) ==
  IF offline THEN offlineSetValue ELSE managerSetValue(entityId)

statusOfWithoutUnknown(message) ==
  IF message = "Offline mode: valve control unavailable" THEN 503
  ELSE 500

\* the catch block of the route: the status for an Error with this message;
\* next(error) ends in the error middleware, which answers 500
statusOf(message) ==
  IF message = "Unknown valve" THEN 404
  ELSE IF message = "Offline mode: valve control unavailable" THEN 503
  ELSE 500

Response(entityId, value, status, error) ==
  Some([entityId |-> entityId, value |-> value, status |-> status,
        error |-> error])

InitCmd ==
  /\ offline \in BOOLEAN
  /\ snapshot \in SUBSET ValveIds
  /\ offline => snapshot = {}
  /\ upstreamCalls = <<>>
  /\ http = None
  /\ clients = <<>> /\ down = <<>>
  /\ PickIdle /\ SchedIdle /\ WriteIdle /\ ResolveIdle /\ ConnIdle /\ LinkIdle /\ LifeIdle

Pending == http # None /\ Val(http).status = 0

\* POST /:entityId up to the response or to the await of the upstream call
PostValve(entityId, value) ==
  /\ ~Pending
  /\ Len(upstreamCalls) < MaxUpstreamCalls
  /\ IF entityId = ""
       THEN http' = Response(entityId, value, 400, None) /\ UNCHANGED upstreamCalls
     ELSE IF numericValue(value) = None
       THEN http' = Response(entityId, value, 400, None) /\ UNCHANGED upstreamCalls
     ELSE IF setValueThrows(entityId) # None
       THEN /\ http' = Response(entityId, value,
                                statusOf(Val(setValueThrows(entityId))),
                                setValueThrows(entityId))
            /\ UNCHANGED upstreamCalls
     ELSE /\ http' = Response(entityId, value, 0, None)
          /\ upstreamCalls' = Append(upstreamCalls,
                                     <<entityId, Val(numericValue(value))>>)
  /\ UNCHANGED <<coreVars, resolveVars, lifeVars, connVars, linkVars, clients, down,
                 offline, snapshot>>

\* the upstream call settles: acknowledged (response.json(result)) or failed
UpstreamSettles(ok) ==
  /\ Pending
  /\ http' = Some([Val(http) EXCEPT
                     !.status = IF ok THEN 200 ELSE statusOf("upstream"),
                     !.error = IF ok THEN None ELSE Some("upstream")])
  /\ UNCHANGED <<coreVars, resolveVars, lifeVars, connVars, linkVars, clients, down,
                 offline, snapshot, upstreamCalls>>

\* the initial fetch or an upstream event makes an entity known
EntityAppears(id) ==
  /\ ~offline /\ id \notin snapshot
  /\ snapshot' = snapshot \cup {id}
  /\ UNCHANGED <<coreVars, resolveVars, lifeVars, connVars, linkVars, clients, down,
                 offline, upstreamCalls, http>>

NextCmd ==
  \/ \E entityId \in PathIds, value \in BodyValues : PostValve(entityId, value)
  \/ \E ok \in BOOLEAN : UpstreamSettles(ok)
  \/ \E id \in ValveIds : EntityAppears(id)

SpecCmd == InitCmd /\ [][NextCmd]_vars

\* a step in which a command with a usable value for an absent entity is
\* handled
AbsentCommand ==
  \E entityId \in ValveIds, value \in BodyValues :
    /\ entityId \notin snapshot
    /\ numericValue(value) # None
    /\ PostValve(entityId, value)

\* C23 (as claimed): a command for an entity absent from the snapshot fails at
\* once with the unknown-entity error, is answered 404, issues no upstream
\* call and adds no snapshot entry.
C23_AbsentEntityIs404 ==
  [][AbsentCommand =>
       /\ Val(http').status = 404
       /\ Val(http').error = Some("Unknown valve")
       /\ upstreamCalls' = upstreamCalls
       /\ snapshot' = snapshot]_vars

\* C23 (amended): a command for an entity absent from the snapshot fails at
\* once, issues no upstream call and adds no snapshot entry; with Home
\* Assistant configured the error is the unknown-entity error and the answer
\* 404, without it the error is the offline-mode error and the answer 503.
C23_AbsentEntityRejected ==
  [][AbsentCommand =>
       /\ Val(http').status = IF offline THEN 503 ELSE 404
       /\ Val(http').error =
            Some(IF offline THEN "Offline mode: valve control unavailable"
                 ELSE "Unknown valve")
       /\ upstreamCalls' = upstreamCalls
       /\ snapshot' = snapshot]_vars

\* an absent entity was answered 404 after a command for a known entity had
\* gone upstream
C23_Witness ==
  /\ http # None /\ ~offline
  /\ Val(http).status = 404
  /\ Val(http).entityId = "number.luftator_b"
  /\ "number.luftator_b" \notin snapshot
  /\ upstreamCalls = <<<<"number.luftator_a", 50>>>>

\* ---------------------------------------------------------------------
\* TimelineRunner.stop() called once, at any moment of a run
\* ---------------------------------------------------------------------

\* stop() is called and returns
StopCall ==
  /\ lifecycle = <<>>
  /\ stop
  /\ lifecycle' = <<"stop">>
  /\ UNCHANGED <<pickVars, deviceVars, writeVars, resolveVars, connVars, linkVars,
                 downVars, cmdVars>>
  /\ UNCHANGED <<ticks, lastTick, timelineInterval, lastAppliedEventId>>

InitStop == InitRunner /\ hruConfigured

NextStop ==
  \/ lifecycle = <<>> /\ RunnerStart
  \/ StopCall
  \/ RunnerTimerFire
  \/ \E t \in Running, ok \in BOOLEAN : RunnerValveResult(t, ok)
  \/ \E t \in Running, ok \in BOOLEAN : RunnerConnectResult(t, ok)
  \/ \E t \in Running, ok \in BOOLEAN : RunnerWriteResult(t, ok)

SpecStop == InitStop /\ [][NextStop]_vars

\* a step after which an execution is suspended in a setValue or writeHolding
\* call that the step has just made
WriteIssued ==
  \E t \in BagToSet(ticks') :
    /\ CopiesIn(t, ticks') > CopiesIn(t, ticks)
    /\ t.pc \in {"valve", "write"}

\* C24 (as claimed): once stop() has returned, the timer callback never
\* starts another tick and no setValue or writeHolding call is made, also
\* when a tick was in progress at the time of the call.
C24_NothingAfterStop ==
  [][(lifecycle = <<"stop">>) => (~RunnerTimerFire /\ ~WriteIssued)]_vars

\* ---------------------------------------------------------------------
\* shutdown(signal) of the server, with the interval scheduler running
\* ---------------------------------------------------------------------

Exited == lifecycle # <<>> /\ lifecycle[Len(lifecycle)] = "process.exit"

\* SIGINT or SIGTERM: shutdown() runs wss.close() and is suspended in
\* `await valveManager.stop()`
ShutdownBegin ==
  /\ timelineInterval = "set"
  /\ lifecycle = <<>>
  /\ lifecycle' = <<"wss.close">>
  /\ UNCHANGED <<coreVars, resolveVars, connVars, linkVars, downVars, cmdVars>>

\* valveManager.stop() has closed the upstream link and resolves; shutdown()
\* is suspended in the await of httpServer.close
ManagerStopped ==
  /\ lifecycle = <<"wss.close">>
  /\ lifecycle' = Append(lifecycle, "valveManager.stop")
  /\ UNCHANGED <<coreVars, resolveVars, connVars, linkVars, downVars, cmdVars>>

\* the callback of httpServer.close runs, then process.exit(0)
HttpServerClosed ==
  /\ lifecycle = <<"wss.close", "valveManager.stop">>
  /\ lifecycle' = lifecycle \o <<"httpServer.close", "process.exit">>
  /\ UNCHANGED <<coreVars, resolveVars, connVars, linkVars, downVars, cmdVars>>

NextShutdown ==
  \/ LegacyStart
  \/ ~Exited /\ LegacyIntervalFire
  \/ ~Exited /\ \E t \in Running, ok \in BOOLEAN : LegacyValveResult(t, ok)
  \/ ~Exited /\ \E t \in Running, ok \in BOOLEAN : LegacyConnectResult(t, ok)
  \/ ~Exited /\ \E t \in Running, ok \in BOOLEAN : LegacyWriteResult(t, ok)
  \/ ShutdownBegin
  \/ ManagerStopped
  \/ HttpServerClosed

InitShutdown == InitLegacy /\ hruConfigured

SpecShutdown == InitShutdown /\ [][NextShutdown]_vars

\* the position of a step in the shutdown so far (0: not carried out)
StepAt(log, step) ==
  IF step \in Range(log) THEN CHOOSE k \in 1..Len(log) : log[k] = step ELSE 0

\* C25 (as claimed): shutdown stops the scheduler before anything else,
\* closes the upstream link and the downstream server after that and
\* releases the device transports last; and once the upstream link has been
\* closed the scheduler starts no tick.
C25_ShutdownOrder ==
  [][/\ lifecycle' # <<>> => lifecycle'[1] = "scheduler.stop"
     /\ Exited' =>
          /\ StepAt(lifecycle', "scheduler.stop") > 0
          /\ StepAt(lifecycle', "valveManager.stop")
               > StepAt(lifecycle', "scheduler.stop")
          /\ StepAt(lifecycle', "wss.close")
               > StepAt(lifecycle', "scheduler.stop")
          /\ StepAt(lifecycle', "transports.release")
               > StepAt(lifecycle', "valveManager.stop")
     /\ "valveManager.stop" \in Range(lifecycle) => ~LegacyIntervalFire]_vars

\* ---------------------------------------------------------------------
\* An edit of a stored rule while the interval scheduler runs
\* ---------------------------------------------------------------------

\* the rule store replaces the targets of rule 1 (upsertTimelineEvent with
\* the id of an existing rule); lastTick is reset so that it tells what the
\* first tick to end after the edit did
EditRule ==
  /\ store \in StoreChoices
  /\ store' = EditedStore(store)
  /\ lastTick' = None
  /\ UNCHANGED <<restVars, pickVars, writeVars, hruConfigured, valves, regs,
                 ticks, timelineTimer, timelineInterval, lastAppliedEventId>>

NextEdit ==
  \/ LegacyStart
  \/ LegacyIntervalFire
  \/ \E t \in Running, ok \in BOOLEAN : LegacyValveResult(t, ok)
  \/ \E t \in Running, ok \in BOOLEAN : LegacyConnectResult(t, ok)
  \/ \E t \in Running, ok \in BOOLEAN : LegacyWriteResult(t, ok)
  \/ EditRule

SpecEdit == InitShutdown /\ [][NextEdit]_vars

\* C26 (as claimed): the first tick that ends after the targets of rule 1
\* were edited, when it starts after the edit (it starts and ends in one
\* step) and finds rule 1 active, issues the rule's writes.
C26_EditTakesEffectNextTick ==
  [][(/\ RuleA2 \in store /\ lastTick = None
      /\ lastTick' # None /\ ticks' = ticks
      /\ Val(lastTick').id = Some(RuleA2.id))
       => Val(lastTick').applied]_vars

(***************************************************************************)
(* SpecCancel: the upstream link and an ephemeral register transport       *)
(* client side by side, with the cancel function of the subscription and   *)
(* the shutdown() of server.ts                                             *)
(***************************************************************************)
\* SIGINT or SIGTERM: shutdown() runs wss.close() and is suspended in
\* `await valveManager.stop()`
ShutdownSignal ==
  /\ lifecycle = <<>>
  /\ lifecycle' = <<"wss.close">>
  /\ UNCHANGED <<coreVars, resolveVars, connVars, linkVars, downVars, cmdVars>>

\* valveManager.stop() calls the cancel function of its subscription and
\* resolves; shutdown() is suspended in the await of httpServer.close
ManagerStopsLink ==
  /\ lifecycle = <<"wss.close">>
  /\ lifecycle' = Append(lifecycle, "valveManager.stop")
  /\ link' = IF Link.active THEN Some(unsubscribe(Link)) ELSE link
  /\ UNCHANGED <<coreVars, resolveVars, connVars, downVars, cmdVars, lastMsg, handled>>

InitCancel ==
  /\ link = Some([active |-> TRUE, socket |-> Some(NewSocket),
                  reconnectTimer |-> None, attempt |-> 1,
                  liveSockets |-> 1, pendingTimers |-> 0])
  /\ lastMsg = None
  /\ handled = None
  /\ reachable \in BOOLEAN
  /\ mb = NewClient
  /\ tConnects = [teardown |-> 0, tcp |-> 0]
  /\ calls = [c \in Callers |-> IdleCall]
  /\ PickIdle /\ SchedIdle /\ WriteIdle /\ ResolveIdle /\ DownIdle /\ CmdIdle /\ LifeIdle

NextCancel ==
  \/ ~Exited /\ SocketOpen
  \/ ~Exited /\ \E msg \in AllMsgs, outcome \in HandlerOutcomes :
                  SocketMessage(msg, outcome)
  \/ ~Exited /\ SocketError
  \/ ~Exited /\ SocketClose
  \/ ~Exited /\ ReconnectTimerFire
  \/ ~Exited /\ Unsubscribe
  \/ ~Exited /\ \E c \in TempCallers : TempCall(c)
  \/ ~Exited /\ \E c \in TempCallers : ConnectTeardownDone(c)
  \/ ~Exited /\ \E c \in TempCallers, res \in {"ok", "err", "setIdThrows"} :
                  TempConnectCallback(c, res)
  \/ ~Exited /\ \E c \in TempCallers : TempOpDone(c)
  \/ ~Exited /\ \E c \in TempCallers : TempReleaseDone(c)
  \/ ~Exited /\ TimerFire
  \/ ~Exited /\ TimerTeardownDone
  \/ ~Exited /\ \E res \in {"ok", "err", "setIdThrows"} : TimerConnectCallback(res)
  \/ ~Exited /\ CloseCallback
  \/ ~Exited /\ Drop
  \/ ~Exited /\ SetReachable
  \/ ShutdownSignal
  \/ ManagerStopsLink
  \/ HttpServerClosed

SpecCancel == InitCancel /\ [][NextCancel]_vars

\* the cancel function of the subscription has been called
Cancelled == ~Link.active

\* shutdown() has stopped the manager and the process has not exited yet
ShutdownPastLink == "valveManager.stop" \in Range(lifecycle) /\ ~Exited

\* a connection attempt of the upstream link / of the transport client starts
LinkConnects == Link'.socket # None /\ Link'.socket # Link.socket /\ Link.socket = None

\* C27 (as claimed): once the cancel function of the upstream subscription
\* has been called, the link has no reconnect timer pending, never gets a
\* socket again and never invokes the event handler; and once shutdown has
\* stopped the manager, the register transport client has no reconnect timer
\* pending either and starts no connection attempt.
C27_NothingPendingAfterCancel ==
  [][/\ Cancelled =>
          /\ Link.reconnectTimer = None /\ Link.socket = None
          /\ ~LinkConnects
          /\ handled' = handled
     /\ ShutdownPastLink =>
          /\ Cancelled
          /\ ~mb.reconnectTimer
          /\ ~TimerFire]_vars

(***************************************************************************)
(* SpecDisabled: TimelineRunner over stores that hold a disabled rule      *)
(***************************************************************************)
InitDisabled ==
  /\ store \in DisabledStores
  /\ hruConfigured = TRUE
  /\ valves = [v \in {"valve.1", "valve.2", "valve.3"} |-> None]
  /\ regs = [a \in RegAddresses |-> None]
  /\ ticks = EmptyBag
  /\ timelineTimer = "null"
  /\ timelineInterval = "null"
  /\ lastAppliedEventId = None
  /\ lastTick = None
  /\ PickIdle /\ WriteIdle /\ RestIdle

SpecDisabled == InitDisabled /\ [][NextRunner]_vars

\* the day and the time window of rule e match the clock reading c
WindowMatchesAt(e, c) ==
  /\ (e.dayOfWeek = None \/ e.dayOfWeek = Some((c.jsDay + 6) % 7))
  /\ timeToMinutes(e.startTime) <= c.hours * 60 + c.minutes
  /\ c.hours * 60 + c.minutes < timeToMinutes(e.endTime)

\* C28: a disabled rule is never the rule of a tick, in progress or ended,
\* and while the store holds only a disabled rule no tick calls setValue or
\* opens a device session and no valve or register is written.
C28_DisabledNeverApplied ==
  /\ \A t \in Running : IsSome(t.event) => EventOf(t).enabled
  /\ (lastTick # None /\ Val(lastTick).id # None) =>
        RuleById(Val(Val(lastTick).id)).enabled
  /\ (\A e \in store : ~e.enabled) =>
        /\ ticks = EmptyBag
        /\ lastTick # None => ~Val(lastTick).applied
        /\ \A v \in DOMAIN valves : valves[v] = None
        /\ \A a \in DOMAIN regs : regs[a] = None

\* C28 witness: a tick has ended at a clock reading inside the day and the
\* window of the only stored rule, which is disabled, and nothing was applied
C28_Witness ==
  /\ store = {RuleG}
  /\ lastTick # None
  /\ WindowMatchesAt(RuleG, Val(lastTick).clock)
  /\ Val(lastTick).outcome = "resolved"
  /\ ~Val(lastTick).applied

\* the rule pickActiveEvent returned is e
Picked(e) == pResult = Some(Some(e))

PickedNone == pResult = Some(None)

\* C29: pickActiveEvent returns a rule exactly when some enabled rule of the
\* day has start <= m < end at the minute m of the clock, and the rule it
\* returns is such a rule; the rule with the window 10:00-14:00 is returned
\* at 13:59 and not at 14:00; a rule with no day of week, alone in the
\* store, is returned on every day at exactly the minutes of its window.
C29_HalfOpenWindow ==
  pResult # None =>
    /\ ~PickedNone <=> \E e \in Range(pEvents) : MatchesAt(e, pClock)
    /\ ~PickedNone => MatchesAt(Val(Val(pResult)), pClock)
    /\ (pEvents = <<RuleA>> /\ pClock.jsDay = 1) =>
         /\ (pClock.hours = 13 /\ pClock.minutes = 59) => Picked(RuleA)
         /\ (pClock.hours = 14 /\ pClock.minutes = 0) => PickedNone
    /\ \A e \in Range(pEvents) :
         (Len(pEvents) = 1 /\ e.enabled /\ e.dayOfWeek = None) =>
           (Picked(e) <=>
              /\ timeToMinutes(e.startTime) <= pClock.hours * 60 + pClock.minutes
              /\ pClock.hours * 60 + pClock.minutes < timeToMinutes(e.endTime))

\* C29 witness: the rule with the window 10:00-14:00 was returned at 13:59
\* of its day
C29_Witness ==
  /\ pEvents = <<RuleA>>
  /\ pClock = [jsDay |-> 1, hours |-> 13, minutes |-> 59]
  /\ Picked(RuleA)

(***************************************************************************)
(* SpecScale: the register write of one quantity of a device directive,    *)
(* for the register definitions of HRU_UNITS and of hruService.test.ts     *)
(***************************************************************************)
MaxInput == 6

\* a fraction sn/sd for a declared scale, None when the register has none
RegisterDef(address, scale, precision) ==
  [address |-> address, scale |-> scale, precision |-> precision]

\* registers.requestedPower and registers.requestedTemperature of the unit
\* definitions: atrea-rd5, and the unit of the test
PowerDefs == {RegisterDef(requestedPowerAddress, None, None),
              RegisterDef(100, None, None)}
TemperatureDefs == {RegisterDef(requestedTemperatureAddress, Some(<<ScaleNum, ScaleDen>>), Some(1)),
                    RegisterDef(101, Some(<<ScaleNum, ScaleDen>>), None)}

\* the values of a quantity: n/d
InputNums == (-MaxInput..MaxInput) \cup {22, 60}
InputDens == {1, 2, 4}

ScaleInputs ==
  {[quantity |-> "power", def |-> def, n |-> n, d |-> d] :
     def \in PowerDefs, n \in InputNums, d \in InputDens} \cup
  {[quantity |-> "temperature", def |-> def, n |-> n, d |-> d] :
     def \in TemperatureDefs, n \in InputNums, d \in InputDens}

\* the writeHolding call of the session callback for one quantity:
\* Math.round(power), and Math.round(temperature / (scale ?? 1))
hruWrite(quantity, def, n, d) ==
  IF quantity = "power" THEN <<def.address, Round(n, d)>>
  ELSE LET scale == IF def.scale # None THEN Val(def.scale) ELSE <<1, 1>>
       IN <<def.address, roundedQuotient(n, d, scale[1], scale[2])>>

InitScale ==
  /\ qInput \in ScaleInputs
  /\ qResult = None
  /\ rValues = <<>> /\ rMode = [isNumber |-> TRUE, n |-> 0, s |-> <<>>] /\ rResult = <<>>
  /\ UtilIdle
  /\ PickIdle /\ SchedIdle /\ WriteIdle /\ ConnIdle /\ LinkIdle /\ DownIdle /\ CmdIdle /\ LifeIdle

ScaleApply ==
  /\ qResult = None
  /\ qResult' = Some(hruWrite(qInput.quantity, qInput.def, qInput.n, qInput.d))
  /\ UNCHANGED <<coreVars, connVars, linkVars, downVars, cmdVars, lifeVars,
                 rValues, rMode, rResult, qInput, utilVars>>

NextScale == ScaleApply

SpecScale == InitScale /\ [][NextScale]_vars

\* the scale the register of the written quantity declares, 1 when it
\* declares none
DeclaredScale == IF qInput.def.scale # None THEN Val(qInput.def.scale) ELSE <<1, 1>>

\* r is input / scale rounded to the nearest integer, a half upwards:
\* r - 1/2 <= (n/d) / (sn/sd) < r + 1/2
NearestToQuotient(r, n, d, sn, sd) ==
  /\ (2 * r - 1) * sn * d <= 2 * n * sd
  /\ 2 * n * sd < (2 * r + 1) * sn * d

MaxTasks == 3

\* Promise.resolve().then(task, task): the task does not wait for the queue
chainedOnResolved(queue) == 1

\* this.queue.then(task, task): the promise the task is chained on
chainedOn(queue) == queue

\* then(task, task): the task is called when the promise fulfils or rejects
reacts(promise) == promise \in {"fulfilled", "rejected"}

\* result.then(() => undefined, () => undefined): fulfilled either way
queueAfter(result) == "fulfilled"

\* `return this.queue`: the caller gets undefined whatever the task did
runExclusiveReturnsQueue(k, result) == Resolved(0)

\* `return result`: the caller's promise follows the promise of the task
runExclusiveReturns(k, result) ==
  IF result = "fulfilled" THEN Resolved(k) ELSE Rejected(k)

TaskSettled(t) == t.st \in {"fulfilled", "rejected"}

InitMutex ==
  /\ mTasks = <<>>
  /\ mQueue = <<"fulfilled">>
  /\ rValues = <<>> /\ rMode = [isNumber |-> TRUE, n |-> 0, s |-> <<>>] /\ rResult = <<>>
  /\ ScaleIdle /\ RouteIdle /\ MonitorIdle
  /\ PickIdle /\ SchedIdle /\ WriteIdle /\ ConnIdle /\ LinkIdle /\ DownIdle /\ CmdIdle /\ LifeIdle

MutexFrame ==
  UNCHANGED <<coreVars, connVars, linkVars, downVars, cmdVars, lifeVars,
              rValues, rMode, rResult, scaleVars, routeVars, monitorVars>>

\* mutex.runExclusive(task) up to its return
RunExclusive(fails) ==
  /\ Len(mTasks) < MaxTasks
  /\ mTasks' = Append(mTasks, [st |-> "chained", fails |-> fails,
                               on |-> chainedOn(Len(mQueue)), runs |-> 0, out |-> None])
  /\ mQueue' = Append(mQueue, "pending")
  /\ MutexFrame

\* the reaction of the promise the task is chained on: task() is called
TaskStart(k) ==
  /\ mTasks[k].st = "chained"
  /\ reacts(mQueue[mTasks[k].on])
  /\ mTasks' = [mTasks EXCEPT ![k].st = "running", ![k].runs = @ + 1]
  /\ MutexFrame /\ UNCHANGED mQueue

\* the promise task() returned settles, and result with it
TaskSettle(k) ==
  /\ mTasks[k].st = "running"
  /\ mTasks' = [mTasks EXCEPT ![k].st = IF mTasks[k].fails THEN "rejected" ELSE "fulfilled"]
  /\ MutexFrame /\ UNCHANGED mQueue

\* the reaction of result that settles the queue promise derived from it
QueueSettle(k) ==
  /\ TaskSettled(mTasks[k])
  /\ mQueue[k + 1] = "pending"
  /\ mQueue' = [mQueue EXCEPT ![k + 1] = queueAfter(mTasks[k].st)]
  /\ MutexFrame /\ UNCHANGED mTasks

\* the promise runExclusive returned to its caller settles
CallerSettle(k) ==
  /\ TaskSettled(mTasks[k])
  /\ mTasks[k].out = None
  /\ mTasks' = [mTasks EXCEPT ![k].out = runExclusiveReturns(k, mTasks[k].st)]
  /\ MutexFrame /\ UNCHANGED mQueue

NextMutex ==
  \/ \E fails \in BOOLEAN : RunExclusive(fails)
  \/ \E k \in 1..Len(mTasks) : TaskStart(k)
  \/ \E k \in 1..Len(mTasks) : TaskSettle(k)
  \/ \E k \in 1..Len(mTasks) : QueueSettle(k)
  \/ \E k \in 1..Len(mTasks) : CallerSettle(k)

SpecMutex == InitMutex /\ [][NextMutex]_vars

\* C31: a task has been called only if every task given to runExclusive
\* before it has settled, so at most one task is running at any time and
\* the tasks settle in the order of the calls.
C31_TasksRunInSubmissionOrder ==
  /\ \A k \in 1..Len(mTasks) :
       mTasks[k].st # "chained" =>
         \A j \in 1..(k - 1) : TaskSettled(mTasks[j])
  /\ Cardinality({k \in 1..Len(mTasks) : mTasks[k].st = "running"}) <= 1

\* C31 witness: three calls were made before the first task settled; the
\* first has settled, the second is running and the third still waits
C31_Witness ==
  /\ Len(mTasks) = 3
  /\ mTasks[1].st = "fulfilled" /\ mTasks[1].out = None
  /\ mTasks[2].st = "running"
  /\ mTasks[3].st = "chained"

\* nothing but another call of runExclusive can happen
MutexQuiet ==
  \A k \in 1..Len(mTasks) :
    /\ mTasks[k].st # "running"
    /\ ~(mTasks[k].st = "chained" /\ mQueue[mTasks[k].on] # "pending")
    /\ ~(TaskSettled(mTasks[k]) /\ mQueue[k + 1] = "pending")
    /\ ~(TaskSettled(mTasks[k]) /\ mTasks[k].out = None)

\* C32: no task is called twice and the promise of a caller settles with
\* the result or the error of its own task; and when nothing is left to
\* run, every task has been called once and every caller has its outcome,
\* whichever of the earlier tasks failed.
C32_FailureDoesNotPoison ==
  /\ \A k \in 1..Len(mTasks) :
       /\ mTasks[k].runs <= 1
       /\ mTasks[k].out # None =>
            mTasks[k].out = IF mTasks[k].fails THEN Rejected(k) ELSE Resolved(k)
  /\ MutexQuiet =>
       \A k \in 1..Len(mTasks) : mTasks[k].runs = 1 /\ mTasks[k].out # None

\* C32 witness: the first task failed and its caller got the error; the
\* second task, given to the mutex afterwards, ran once and its caller got
\* its result
C32_Witness ==
  /\ Len(mTasks) >= 2
  /\ mTasks[1].fails /\ mTasks[1].out = Rejected(1)
  /\ mTasks[2].runs = 1 /\ mTasks[2].out = Resolved(2)

(***************************************************************************)
(* SpecRoute: one request to GET /read or POST /write of createHruRouter   *)
(*                                                                         *)
(* hReq.unit is what the stored setting names: "none" (no setting or no    *)
(* unit), "unknown" (getUnitById finds nothing) or "known"; hReq.supports  *)
(* are the quantities def.registers.write has a plan for; hReq.body are    *)
(* the quantities the body carries.                                        *)
(* hRoute.pc is the await the handler is suspended at: "connect"           *)
(* (client.connect()), "read" (the reads of fn), "write"                   *)
(* (applyWriteDefinition for quantity q), or "done".                       *)
(***************************************************************************)
QuantitySet == {"power", "temperature", "mode"}

UnitSettings == {"none", "unknown", "known"}

RouteRequests ==
  [method : {"read", "write"}, unit : UnitSettings,
   supports : SUBSET QuantitySet, body : SUBSET QuantitySet]

IdleRoute == [pc |-> "idle", q |-> "none", sessions |-> 0, writes |-> <<>>,
              responses |-> <<>>]

\* response.status(s).json(...) or .end(): the calls in order; the client
\* gets the first
respond(route, status) == [route EXCEPT !.responses = Append(@, status)]

\* requireHruDefinition without the check of the unit
requireHruDefinitionUnchecked(unit) == 0

\* requireHruDefinition: the status it answers with, 0 when it returns the
\* settings and the definition
requireHruDefinition(unit) ==
  IF unit = "none" THEN 400
  ELSE IF unit = "unknown" THEN 400
  ELSE 0

\* the first quantity at or after position from that the body carries
RECURSIVE NextInBody(_, _)
NextInBody(body, from) ==
  IF from > Len(Quantities) THEN from
  ELSE IF Quantities[from] \in body THEN from
  ELSE NextInBody(body, from + 1)

\* the callback of POST /write from quantity number from on: the next
\* applyWriteDefinition is called; or the quantity has no write plan, 400 is
\* answered and the callback returns; or the callback is through. After the
\* callback withTempModbusClient disconnects and the handler calls
\* response.status(204).end()
ContinueWrite(route, req, from) ==
  LET k == NextInBody(req.body, from)
  IN IF k > Len(Quantities) THEN respond([route EXCEPT !.pc = "done"], 204)
     ELSE IF Quantities[k] \notin req.supports
     THEN respond(respond([route EXCEPT !.pc = "done"], 400), 204)
     ELSE [route EXCEPT !.pc = "write", !.q = Quantities[k]]

InitRoute ==
  /\ hReq \in RouteRequests
  /\ hRoute = IdleRoute
  /\ rValues = <<>> /\ rMode = [isNumber |-> TRUE, n |-> 0, s |-> <<>>] /\ rResult = <<>>
  /\ ScaleIdle /\ MutexIdle /\ MonitorIdle
  /\ PickIdle /\ SchedIdle /\ WriteIdle /\ ConnIdle /\ LinkIdle /\ DownIdle /\ CmdIdle /\ LifeIdle

RouteFrame ==
  UNCHANGED <<coreVars, connVars, linkVars, downVars, cmdVars, lifeVars,
              rValues, rMode, rResult, scaleVars, mutexVars, monitorVars, hReq>>

\* the handler up to its first await, or to its return
RouteHandle ==
  /\ hRoute.pc = "idle"
  /\ hRoute' =
       IF requireHruDefinition(hReq.unit) # 0
       THEN respond([hRoute EXCEPT !.pc = "done"], requireHruDefinition(hReq.unit))
       ELSE IF hReq.method = "write" /\ hReq.body = {}
       THEN respond([hRoute EXCEPT !.pc = "done"], 400)
       ELSE [hRoute EXCEPT !.pc = "connect", !.sessions = @ + 1]
  /\ RouteFrame

\* client.connect() settles: rejected, the catch of the handler answers 502
RouteConnectResult(ok) ==
  /\ hRoute.pc = "connect"
  /\ hRoute' =
       IF ~ok THEN respond([hRoute EXCEPT !.pc = "done"], 502)
       ELSE IF hReq.method = "read" THEN [hRoute EXCEPT !.pc = "read"]
       ELSE ContinueWrite(hRoute, hReq, 1)
  /\ RouteFrame

\* the register reads of GET /read settle
RouteReadResult(ok) ==
  /\ hRoute.pc = "read"
  /\ hRoute' = respond([hRoute EXCEPT !.pc = "done"], IF ok THEN 200 ELSE 502)
  /\ RouteFrame

\* applyWriteDefinition of the awaited quantity settles
RouteWriteResult(ok) ==
  /\ hRoute.pc = "write"
  /\ hRoute' =
       IF ~ok THEN respond([hRoute EXCEPT !.pc = "done"], 502)
       ELSE ContinueWrite([hRoute EXCEPT !.writes = Append(@, hRoute.q)], hReq,
                          QuantityIndex(hRoute.q) + 1)
  /\ RouteFrame

NextRoute ==
  \/ RouteHandle
  \/ \E ok \in BOOLEAN : RouteConnectResult(ok)
  \/ \E ok \in BOOLEAN : RouteReadResult(ok)
  \/ \E ok \in BOOLEAN : RouteWriteResult(ok)

SpecRoute == InitRoute /\ [][NextRoute]_vars

\* the status the client of the request gets
Sent == hRoute.responses[1]

\* the request asks to write a quantity the configured unit has no plan for
NamesUnsupported ==
  /\ hReq.method = "write" /\ hReq.unit = "known"
  /\ hReq.body \ hReq.supports # {}

MaxCycles == 3

NewMonitor(unit) ==
  [unit |-> unit, isRunning |-> FALSE, timer |-> FALSE, timers |-> 0,
   cycles |-> EmptyBag, begun |-> 0, skipped |-> 0, sessions |-> 0, failures |-> 0]

\* getHruDefinitionSafe(): null unless the setting names a known unit
getHruDefinitionSafe(unit) == unit = "known"

\* runCycle(sendDiscovery) up to its first await, or to its return
runCycle(mon, sendDiscovery) ==
  IF ~getHruDefinitionSafe(mon.unit)
  THEN [mon EXCEPT !.begun = @ + 1, !.skipped = @ + 1]
  ELSE IF sendDiscovery
  THEN [mon EXCEPT !.begun = @ + 1,
                   !.cycles = @ (+) SetToBag({[pc |-> "discovery", after |-> mon.failures]})]
  ELSE [mon EXCEPT !.begun = @ + 1, !.sessions = @ + 1,
                   !.cycles = @ (+) SetToBag({[pc |-> "connect", after |-> mon.failures]})]

\* stop() without clearInterval
monitorStopKeepsTimer(mon) == [mon EXCEPT !.isRunning = FALSE, !.timer = FALSE]

\* stop(): isRunning = false; the interval of this.timer is cleared
monitorStop(mon) ==
  [mon EXCEPT !.isRunning = FALSE, !.timer = FALSE,
              !.timers = IF mon.timer THEN @ - 1 ELSE @]

\* start(): nothing while running; otherwise the first cycle and the interval
monitorStart(mon) ==
  IF mon.isRunning THEN mon
  ELSE [runCycle([mon EXCEPT !.isRunning = TRUE], TRUE)
          EXCEPT !.timer = TRUE, !.timers = @ + 1]

InitMonitor ==
  /\ monitor \in {NewMonitor(unit) : unit \in UnitSettings}
  /\ rValues = <<>> /\ rMode = [isNumber |-> TRUE, n |-> 0, s |-> <<>>] /\ rResult = <<>>
  /\ ScaleIdle /\ MutexIdle /\ RouteIdle
  /\ PickIdle /\ SchedIdle /\ WriteIdle /\ ConnIdle /\ LinkIdle /\ DownIdle /\ CmdIdle /\ LifeIdle

MonitorFrame ==
  UNCHANGED <<coreVars, connVars, linkVars, downVars, cmdVars, lifeVars,
              rValues, rMode, rResult, scaleVars, mutexVars, routeVars>>

MonitorStart ==
  /\ monitor.begun < MaxCycles
  /\ monitor' = monitorStart(monitor)
  /\ MonitorFrame

MonitorStop ==
  /\ monitor' = monitorStop(monitor)
  /\ MonitorFrame

\* the callback of setInterval
MonitorIntervalFire ==
  /\ monitor.timers > 0
  /\ monitor.begun < MaxCycles
  /\ monitor' = runCycle(monitor, FALSE)
  /\ MonitorFrame

CycleMoves(c, c2) == (monitor.cycles (-) SetToBag({c})) (+) SetToBag({c2})
CycleEnds(c) == monitor.cycles (-) SetToBag({c})

\* publishDiscovery settles: the cycle goes on to withTempModbusClient, or
\* runCycle rejects (the await is outside the try)
MonitorDiscoveryResult(c, ok) ==
  /\ c.pc = "discovery"
  /\ monitor' = IF ok THEN [monitor EXCEPT !.sessions = @ + 1,
                                           !.cycles = CycleMoves(c, [c EXCEPT !.pc = "connect"])]
                ELSE [monitor EXCEPT !.cycles = CycleEnds(c)]
  /\ MonitorFrame

\* client.connect() settles; a rejection is caught and logged
MonitorConnectResult(c, ok) ==
  /\ c.pc = "connect"
  /\ monitor' = IF ok THEN [monitor EXCEPT !.cycles = CycleMoves(c, [c EXCEPT !.pc = "read"])]
                ELSE [monitor EXCEPT !.failures = @ + 1, !.cycles = CycleEnds(c)]
  /\ MonitorFrame

\* the reads and publishState of the callback settle; a rejection is caught
MonitorReadResult(c, ok) ==
  /\ c.pc = "read"
  /\ monitor' = [monitor EXCEPT !.failures = IF ok THEN @ ELSE @ + 1,
                                !.cycles = CycleEnds(c)]
  /\ MonitorFrame

NextMonitor ==
  \/ MonitorStart
  \/ MonitorStop
  \/ MonitorIntervalFire
  \/ \E c \in BagToSet(monitor.cycles), ok \in BOOLEAN : MonitorDiscoveryResult(c, ok)
  \/ \E c \in BagToSet(monitor.cycles), ok \in BOOLEAN : MonitorConnectResult(c, ok)
  \/ \E c \in BagToSet(monitor.cycles), ok \in BOOLEAN : MonitorReadResult(c, ok)

SpecMonitor == InitMonitor /\ [][NextMonitor]_vars

\* a step in which runCycle is called
CycleBegins == monitor'.begun = monitor.begun + 1

\* C40: after every step the monitor has one interval while it is running
\* and none while it is stopped, whatever failed before; a step that
\* begins a cycle leaves the monitor running, so no cycle begins between a
\* stop() and the next start().
C40_OneTimerNoCycleAfterStop ==
  [][/\ monitor'.timers = (IF monitor'.isRunning THEN 1 ELSE 0)
     /\ monitor'.timer = monitor'.isRunning
     /\ CycleBegins => monitor'.isRunning]_vars

\* C40 witness: the monitor is running with its one interval, a cycle
\* failed at the device, and a cycle that began after that failure is in
\* progress
C40_Witness ==
  /\ monitor.isRunning /\ monitor.timers = 1
  /\ monitor.failures >= 1
  /\ \E c \in BagToSet(monitor.cycles) : c.after >= 1 /\ c.pc = "connect"

(***************************************************************************)
(* SpecUnconfigured: the HTTP routes, the monitor and TimelineRunner of    *)
(* one process whose stored setting names no unit, or a unit that          *)
(* getUnitById does not know                                               *)
(***************************************************************************)
UnconfiguredSettings == {"none", "unknown"}

InitUnconfigured ==
  /\ \E u \in UnconfiguredSettings :
       /\ hReq \in {r \in RouteRequests :
                      r.unit = u /\ r.supports = QuantitySet /\ r.body \in {{}, {"power"}}}
       /\ monitor = NewMonitor(u)
  /\ hRoute = IdleRoute
  /\ store \in DirectiveStores
  /\ hruConfigured = FALSE
  /\ valves = [v \in {"valve.1", "valve.2", "valve.3"} |-> None]
  /\ regs = [a \in RegAddresses |-> None]
  /\ ticks = EmptyBag
  /\ timelineTimer = "null"
  /\ timelineInterval = "null"
  /\ lastAppliedEventId = None
  /\ lastTick = None
  /\ rValues = <<>> /\ rMode = [isNumber |-> TRUE, n |-> 0, s |-> <<>>] /\ rResult = <<>>
  /\ ScaleIdle /\ MutexIdle
  /\ PickIdle /\ WriteIdle /\ ConnIdle /\ LinkIdle /\ DownIdle /\ CmdIdle /\ LifeIdle

NextUnconfigured ==
  \/ RouteHandle
  \/ MonitorStart
  \/ MonitorStop
  \/ MonitorIntervalFire
  \/ RunnerStart
  \/ RunnerStop
  \/ RunnerTimerFire

SpecUnconfigured == InitUnconfigured /\ [][NextUnconfigured]_vars

\* C34: with no unit configured, or an unknown one, the route answers 400
\* once and opens no session; every cycle of the monitor is skipped with no
\* session; and a tick of the scheduler whose rule carries a device
\* directive opens no session and writes no register.
C34_UnconfiguredIsRejected ==
  /\ hRoute.sessions = 0 /\ hRoute.writes = <<>>
  /\ hRoute.pc \in {"idle", "done"}
  /\ hRoute.pc = "done" => hRoute.responses = <<400>>
  /\ monitor.sessions = 0 /\ monitor.cycles = EmptyBag
  /\ monitor.skipped = monitor.begun
  /\ ticks = EmptyBag
  /\ lastTick # None => (Val(lastTick).sessions = 0 /\ ~Val(lastTick).applied)
  /\ \A a \in DOMAIN regs : regs[a] = None

\* C34 witness: a write request was answered, the monitor skipped a cycle
\* that its interval began, and a tick ended whose rule carries a device
\* directive
C34_Witness ==
  /\ hReq.method = "write" /\ hReq.body = {"power"} /\ hRoute.pc = "done"
  /\ monitor.isRunning /\ monitor.skipped >= 2
  /\ lastTick # None /\ Val(lastTick).id = Some(RuleC.id)

\* the window of rule e ends at or before its start
EndsBeforeStart(e) == timeToMinutes(e.endTime) <= timeToMinutes(e.startTime)

\* C35: pickActiveEvent never returns a rule whose end time is not later
\* than its start time, at any clock reading; when the store returns only
\* such rules it returns none, so no write of such a rule is issued.
C35_NoWrapPastMidnight ==
  pResult # None =>
    /\ \A e \in Range(pEvents) : EndsBeforeStart(e) => ~Picked(e)
    /\ (\A e \in Range(pEvents) : EndsBeforeStart(e)) => PickedNone

\* C35 witness: the only rule has the window 22:00-06:00 on every day, the
\* clock reads 23:00, and no rule was returned
C35_Witness ==
  /\ pEvents = <<RuleF>>
  /\ pClock.hours = 23 /\ pClock.minutes = 0
  /\ PickedNone

\* the ephemeral withTempModbusClient of caller c has exited with the error
\* of connect()
ExitedOnConnectFailure(c) ==
  /\ calls[c].out # None
  /\ calls[c].err \in {Some("connectError"), Some("setIdError")}

\* C36 (as claimed): once the ephemeral withTempModbusClient has exited
\* because connect() failed, the client it created has no reconnect timer
\* pending, has no connect in progress and holds no open port.
C36_DiscardedClientIsQuiet ==
  \A c \in TempCallers :
    ExitedOnConnectFailure(c) =>
      /\ ~mb.reconnectTimer
      /\ tConnects.teardown + tConnects.tcp = 0
      /\ ~mb.portOpen

\* C37 (as claimed): while the shared client is connected and a register
\* operation of a caller is in progress on its open port, the callback of a
\* reconnect timer does not close that port.
C37_TimerSparesEstablishedSession ==
  [][(mb.connected /\ RunsOnOpen) => ~(TimerFire /\ ~mb'.portOpen)]_vars

\* C38: for one subscription of the upstream link, whatever the order of
\* open, message, error, close and timer events, at most one of the sockets
\* it has created is live (created and not yet closed or terminated) and at
\* most one of the timers it has armed is pending.
C38_OneSocketOneTimer ==
  link # None => Link.liveSockets <= 1 /\ Link.pendingTimers <= 1

\* a reconnect has replaced the first socket and the second one has closed
\* in its turn: the second timer of the subscription is the one pending
C38_Witness ==
  /\ link # None /\ Link.active /\ Link.attempt >= 2
  /\ Link.pendingTimers = 1 /\ Link.liveSockets = 0
  /\ Link.reconnectTimer = PendingHandle

\* the labels of a mapping in key order: the array the scheduler searches
LabelsOf(entries) == [k \in 1..Len(entries) |-> entries[k][2]]

\* a mapping whose keys are 0..n-1, the keys an array of labels has
IsArrayMapping(entries) == \A k \in 1..Len(entries) : entries[k][1] = k - 1

\* C39 (as claimed): for every mode of a directive and every enum mapping
\* the scheduler can be given (labels at keys 0..n-1), the raw mode the
\* scheduler's inline resolution writes equals resolveModeValue(mapping,
\* mode): for numbers, for labels, and for strings that both parse as an
\* integer and match a label.
C39_SchedulerAgreesWithResolveModeValue ==
  (rResult # None /\ IsArrayMapping(rValues)) =>
     runnerRawMode(LabelsOf(rValues), rMode) = Val(rResult)

====
